---- MODULE Spec2Model ----
(***************************************************************************)
(* Model of the order view of the bridge (pages/BridgeAwaitingDeposit.tsx): *)
(* the adaptive status poller, the completion recorder and the simulated    *)
(* override.  One state of the model is the React state of the component    *)
(* after a render and its effects have run; one action is one event of the  *)
(* JavaScript event loop (a timer callback, the continuation of an awaited  *)
(* call, a user action, a new value of a hook) followed by the renders and  *)
(* the effects that event causes.                                           *)
(*                                                                          *)
(* Times are in milliseconds.  Date.now() is not kept; the model keeps the  *)
(* age of lastPollTimestamp (now - lastPollTimestamp, saturated at the      *)
(* largest interval of the table) and the time left on every armed timer.   *)
(* Time advances from one timer deadline to the next; the events between    *)
(* two deadlines are taken in every order at the earlier one.               *)
(***************************************************************************)
EXTENDS Integers, FiniteSets, Bags, TLC

(* ---------------------------------------------------------------- bounds *)
MaxInFlight == 1      \* status requests awaiting their response
MaxInserts == 2       \* inserts awaiting the store's answer
MaxRedirects == 2     \* delayed redirects armed at once
MaxRecords == 2       \* rows counted per order id in the store
MaxHookUpdates == 1   \* new values of the order hook after the mount
MaxParamChanges == 1  \* changes of the search parameters while mounted
MaxEmergencyActions == 1  \* emergency actions requested

(* ------------------------------------------------------- program values *)
NULL == -1            \* null (also undefined): no interval, no timer armed
DEFAULT == 15000
REDIRECT_DELAY == 2000

RawStatus == {"NEW", "PENDING", "EXCHANGE", "WITHDRAW", "DONE", "EXPIRED", "EMERGENCY"}

POLLING_INTERVALS ==
  [s \in RawStatus |->
     CASE s = "NEW" -> 10000
       [] s = "PENDING" -> 10000
       [] s = "EXCHANGE" -> 20000
       [] s = "WITHDRAW" -> 20000
       [] s = "DONE" -> 30000
       [] s = "EXPIRED" -> NULL
       [] s = "EMERGENCY" -> NULL]

\* a ?? b: b when a is null or undefined, else a
Nullish(a, b) == IF a = NULL THEN b ELSE a

\* the interval lookup with polling stopped once DONE is observed
PollingIntervalFor_StopsAtDone(apiStatus) ==
  IF apiStatus = "DONE" THEN NULL
  ELSE Nullish(IF apiStatus \in DOMAIN POLLING_INTERVALS THEN POLLING_INTERVALS[apiStatus] ELSE NULL,
               DEFAULT)

\* POLLING_INTERVALS[apiStatus] ?? POLLING_INTERVALS.DEFAULT
PollingIntervalFor(apiStatus) ==
  Nullish(IF apiStatus \in DOMAIN POLLING_INTERVALS THEN POLLING_INTERVALS[apiStatus] ELSE NULL,
          DEFAULT)

\* the largest interval: an age of lastPollTimestamp beyond it is never told apart
MaxInterval == 30000

Orders == {"X", "Y"}
NoOrder == "none"

\* the client-facing collapse of a raw status, as the order hook reports it
StatusOf(raw) ==
  CASE raw \in {"NEW", "PENDING", "EXCHANGE", "WITHDRAW"} -> "pending"
    [] raw = "DONE" -> "completed"
    [] raw = "EXPIRED" -> "expired"
    [] raw = "EMERGENCY" -> "failed"

NoDetails == [orderId |-> NoOrder, currentStatus |-> "none", rawStatus |-> "none"]
Details(o, raw) == [orderId |-> o, currentStatus |-> StatusOf(raw), rawStatus |-> raw]

\* {...originalOrderDetails, currentStatus: "completed", rawApiResponse: {..., status: "DONE"}}
MarkDone(d) == [d EXCEPT !.currentStatus = "completed", !.rawStatus = "DONE"]

\* statusCheckError: null, the message of the guard, the message of a failed request
NoError == "none"
MissingError == "Missing order ID or token"
RequestError == "Error"

\* a status request in flight: what the invoked checkOrderStatus closure holds
Req(o, orig, saved) == [id |-> o, orig |-> orig, saved |-> saved]
\* an insert in flight
Ins(o) == [orderId |-> o]

VARIABLES
  mounted,                    \* the order view is mounted
  orderId, token,             \* the search parameters
  originalOrderDetails,       \* what useBridgeOrder returns
  orderDetails,               \* the displayed details (StatusSnapshot)
  simulateSuccess,
  pollingInterval,
  pollAge,                    \* Date.now() - lastPollTimestamp, saturated
  manualStatusCheckAttempted,
  transactionSaved,
  statusCheckError,            \* the error of the last failed status check, NoError when none
  cbSaved,                    \* transactionSaved as seen by the memoized checkOrderStatus
  pollTimer,                  \* ms until the setInterval callback, NULL when not armed
  statusRequests,             \* bag of status requests in flight
  inserts,                    \* bag of inserts in flight
  redirects,                  \* bag of ms left on the delayed redirects
  store,                      \* rows of completed_bridge_transactions per order id
  navigated,                  \* times navigate() to the completion page ran
  hookUpdates, paramChanges,  \* inputs received so far
  ev                          \* the event that produced this state

viewVars == <<mounted, orderId, token, originalOrderDetails, orderDetails,
              simulateSuccess, pollingInterval, pollAge, manualStatusCheckAttempted,
              transactionSaved, statusCheckError, cbSaved, pollTimer, statusRequests, inserts,
              redirects, store, navigated, hookUpdates, paramChanges, ev>>

\* the expired-order reconciler of components/bridge/BridgeStatusRenderer.tsx
VARIABLES
  initialOrderDetails,        \* the orderDetails prop
  initialLoading,             \* the loading prop
  errorProp,                  \* the error prop is set
  checkDbAvailable,           \* the checkDbForCompletedTransaction prop is given
  rendererOrderDetails,       \* the renderer's own orderDetails state
  checkingDbForExpiredOrder,
  loading,
  stateStabilized,
  hasCheckedExpiredOrderRef,  \* order id, NoOrder for null
  stabTimer,                  \* ms left on the stabilisation timer, NULL when not armed
  boundTimer,                 \* ms left on the DB check timeout, NULL when not armed
  dbQueries,                  \* store queries awaiting their answer
  dbTimers,                   \* the delayed continuations of answered queries
  propsUpdates,               \* new props received so far
  queriesMade,                \* store queries issued per order id
  check,                      \* the last reconciliation started
  checkAge,                   \* ms since it started, saturated
  rendererEv                  \* the event that produced this state

recVars == <<initialOrderDetails, initialLoading, errorProp, checkDbAvailable,
             rendererOrderDetails, checkingDbForExpiredOrder, loading, stateStabilized,
             hasCheckedExpiredOrderRef, stabTimer, boundTimer, dbQueries, dbTimers,
             propsUpdates, queriesMade, check, checkAge, rendererEv>>

\* the order creator of the bridge provider (BridgeProvider, contexts/BridgeContext)
VARIABLES
  fromCurrency, toCurrency,   \* currency codes, "" when none is selected
  amount,                     \* the amount as typed
  destinationAddress,
  lastPriceData,              \* the quote, NoQuote for null
  quotedFor,                  \* the inputs calculatePrice was given for the quote held, NoInputs when none is
  amountError,
  estimatedReceiveAmount,
  isCalculating,
  timeRemaining,              \* ms left on the countdown shown, NULL for null
  timeRemainingTimerRef,      \* timeRemainingTimerRef.current holds an interval
  countdownTimers,            \* countdown intervals armed
  sinceQuote,                 \* ms since the last calculation ended, NULL when none did
  sessionSlot,                \* localStorage["bridge_transaction_data"]
  statusCheckTimerRef,        \* the order id the status interval checks, NoOrder for null
  statusTimers,               \* the order ids of the status intervals armed
  priceCalls,                 \* calculatePrice calls awaiting their answer
  orderCalls,                 \* createOrder calls awaiting their answer
  statusChecks,               \* checkOrderStatus calls of the status interval awaiting their answer
  lastCreated,                \* the session of the last successful creation
  inputChanges, creates,      \* inputs received so far
  providerEv                  \* the event that produced this state

provVars == <<fromCurrency, toCurrency, amount, destinationAddress, lastPriceData, quotedFor,
              amountError, estimatedReceiveAmount, isCalculating, timeRemaining,
              timeRemainingTimerRef, countdownTimers,
              sinceQuote, sessionSlot, statusCheckTimerRef, statusTimers, priceCalls, orderCalls,
              statusChecks,
              lastCreated, inputChanges, creates, providerEv>>

\* the emergency action handler of components/bridge/BridgeStatusRenderer.tsx
VARIABLES
  ffOrderId,                  \* orderDetails.ffOrderId of the rendered order, "" when missing
  checkOrderStatusGiven,      \* the checkOrderStatus prop is given
  setEmergencyActionTakenGiven, \* the setEmergencyActionTaken prop is given
  emergencyActionTaken,       \* the flag behind setEmergencyActionTaken
  emergencyCalls,             \* bridge-emergency requests awaiting their answer
  followUps,                  \* the armed setTimeout callbacks of answered requests
  emergencyActions,           \* emergency actions requested so far
  emergencyEv                 \* the event that produced this state

emergVars == <<ffOrderId, checkOrderStatusGiven, setEmergencyActionTakenGiven,
               emergencyActionTaken, emergencyCalls, followUps, emergencyActions,
               emergencyEv>>

vars == <<viewVars, recVars, provVars, emergVars>>

\* the value of ev after an event that is neither a check, a response nor the
\* answer to an insert
Other == [kind |-> "other"]

One(x) == SetToBag({x})
Min(a, b) == IF a < b THEN a ELSE b
Smallest(S) == CHOOSE x \in S : \A y \in S : x <= y

StatusDep(d) == d.rawStatus

(***************************************************************************)
(* The renders and effects that follow an event.  The parameters are the   *)
(* values the event's handler has set: the search parameters, the hook's   *)
(* value (origChanged: a new object), the switch, the displayed details    *)
(* (odChanged: setOrderDetails was called), the saved flag, whether the    *)
(* handler executed a check (polled), and the requests, inserts, redirects *)
(* and store rows it leaves.                                               *)
(***************************************************************************)
Commit(oid2, tok2, orig2, origChanged, sim2, od1, odChanged, saved2, polled, reqs1, ins1, redirects2, store2, err2, e) ==
  LET \* effect [originalOrderDetails, simulateSuccess]
      runSync == origChanged \/ sim2 # simulateSuccess
      od2 == IF runSync /\ orig2 # NoDetails
               THEN (IF sim2 THEN MarkDone(orig2) ELSE orig2)
               ELSE od1
      od2Changed == odChanged \/ (runSync /\ orig2 # NoDetails)
      \* effect [orderDetails?.rawApiResponse?.status]
      pi2 == IF od2 # NoDetails /\ StatusDep(od2) # StatusDep(orderDetails)
               THEN PollingIntervalFor(od2.rawStatus)
               ELSE pollingInterval
      \* checkOrderStatus of the render the effects run in
      depsA == polled \/ origChanged \/ oid2 # orderId \/ tok2 # token
      cbA == IF depsA THEN saved2 ELSE cbSaved
      \* effect [orderId, token, manualStatusCheckAttempted, checkOrderStatus]
      forced == oid2 # NoOrder /\ tok2 /\ ~(manualStatusCheckAttempted \/ polled)
      reqs2 == IF forced THEN reqs1 (+) One(Req(oid2, orig2, cbA)) ELSE reqs1
      polled2 == polled \/ forced
      \* useCallback [orderId, token, pollingInterval, lastPollTimestamp, originalOrderDetails]
      cbChanged == depsA \/ forced \/ pi2 # pollingInterval
      \* effect [simulateSuccess, orderDetails, transactionSaved]
      saveFx == /\ sim2 # simulateSuccess \/ od2Changed \/ saved2 # transactionSaved
                /\ sim2 /\ od2 # NoDetails
                /\ od2.currentStatus = "completed" /\ od2.rawStatus = "DONE"
                /\ ~saved2
      ins2 == IF saveFx THEN ins1 (+) One(Ins(od2.orderId)) ELSE ins1
  IN /\ BagCardinality(reqs2) <= MaxInFlight
     /\ BagCardinality(ins2) <= MaxInserts
     /\ orderId' = oid2
     /\ token' = tok2
     /\ originalOrderDetails' = orig2
     /\ simulateSuccess' = sim2
     /\ orderDetails' = od2
     /\ pollingInterval' = pi2
     /\ transactionSaved' = saved2
     /\ manualStatusCheckAttempted' = (manualStatusCheckAttempted \/ polled2)
     /\ pollAge' = IF polled2 THEN 0 ELSE pollAge
     /\ cbSaved' = IF cbChanged THEN saved2 ELSE cbSaved
     \* effect [orderId, token, pollingInterval, checkOrderStatus]
     /\ pollTimer' = IF cbChanged
                       THEN (IF oid2 # NoOrder /\ tok2 /\ pi2 # NULL THEN pi2 ELSE NULL)
                       ELSE pollTimer
     /\ statusRequests' = reqs2
     /\ inserts' = ins2
     /\ redirects' = redirects2
     /\ store' = store2
     /\ statusCheckError' = err2
     /\ ev' = e
     /\ UNCHANGED <<mounted, navigated>>
     /\ UNCHANGED <<recVars, provVars>>

\* an event that changes no state of the view
Quiet(reqs1, ins1, redirects2, store2, timer2, err2, e) ==
  /\ BagCardinality(ins1) <= MaxInserts
  /\ statusRequests' = reqs1
  /\ inserts' = ins1
  /\ redirects' = redirects2
  /\ store' = store2
  /\ pollTimer' = timer2
  /\ statusCheckError' = err2
  /\ ev' = e
  /\ UNCHANGED <<mounted, orderId, token, originalOrderDetails, orderDetails,
                 simulateSuccess, pollingInterval, pollAge,
                 manualStatusCheckAttempted, transactionSaved, cbSaved, navigated>>
  /\ UNCHANGED <<recVars, provVars>>

(* ------------------------------------------------------ checkOrderStatus *)
\* checkOrderStatus with the debounce test written <= : a check made exactly one
\* interval after the last one is skipped
CheckOrderStatus_LateDebounce(force, viaTimer) ==
  LET e == [kind |-> "check", force |-> force, timer |-> viaTimer]
      again == IF viaTimer THEN pollingInterval ELSE pollTimer
  IN IF orderId = NoOrder \/ ~token
       THEN Quiet(statusRequests, inserts, redirects, store, again, MissingError, e)
     ELSE IF pollingInterval = NULL /\ ~force
       THEN Quiet(statusRequests, inserts, redirects, store, again, statusCheckError, e)
     ELSE IF ~force /\ pollAge <= pollingInterval
       THEN Quiet(statusRequests, inserts, redirects, store, again, statusCheckError, e)
     ELSE Commit(orderId, token, originalOrderDetails, FALSE, simulateSuccess,
                 orderDetails, FALSE, transactionSaved, TRUE,
                 statusRequests (+) One(Req(orderId, originalOrderDetails, cbSaved)),
                 inserts, redirects, store, statusCheckError, e)

\* checkOrderStatus with the debounce test not exempting a forced check
CheckOrderStatus_ForceDebounced(force, viaTimer) ==
  LET e == [kind |-> "check", force |-> force, timer |-> viaTimer]
      again == IF viaTimer THEN pollingInterval ELSE pollTimer
  IN IF orderId = NoOrder \/ ~token
       THEN Quiet(statusRequests, inserts, redirects, store, again, MissingError, e)
     ELSE IF pollingInterval = NULL /\ ~force
       THEN Quiet(statusRequests, inserts, redirects, store, again, statusCheckError, e)
     ELSE IF pollAge < pollingInterval
       THEN Quiet(statusRequests, inserts, redirects, store, again, statusCheckError, e)
     ELSE Commit(orderId, token, originalOrderDetails, FALSE, simulateSuccess,
                 orderDetails, FALSE, transactionSaved, TRUE,
                 statusRequests (+) One(Req(orderId, originalOrderDetails, cbSaved)),
                 inserts, redirects, store, statusCheckError, e)

\* the synchronous part of checkOrderStatus(force), up to the await
CheckOrderStatus(force, viaTimer) ==
  LET e == [kind |-> "check", force |-> force, timer |-> viaTimer]
      again == IF viaTimer THEN pollingInterval ELSE pollTimer
  IN IF orderId = NoOrder \/ ~token
       THEN Quiet(statusRequests, inserts, redirects, store, again, MissingError, e)
     ELSE IF pollingInterval = NULL /\ ~force
       THEN Quiet(statusRequests, inserts, redirects, store, again, statusCheckError, e)
     ELSE IF ~force /\ pollAge < pollingInterval
       THEN Quiet(statusRequests, inserts, redirects, store, again, statusCheckError, e)
     ELSE Commit(orderId, token, originalOrderDetails, FALSE, simulateSuccess,
                 orderDetails, FALSE, transactionSaved, TRUE,
                 statusRequests (+) One(Req(orderId, originalOrderDetails, cbSaved)),
                 inserts, redirects, store, statusCheckError, e)

\* the setInterval callback of the polling effect
PollTick ==
  /\ mounted
  /\ UNCHANGED <<hookUpdates, paramChanges>>
  /\ UNCHANGED emergVars
  /\ pollTimer = 0
  /\ CheckOrderStatus(FALSE, TRUE)

\* checkOrderStatus called by a collaborator of the view (a retry, an explicit check)
ExternalCheck ==
  /\ mounted
  /\ UNCHANGED <<hookUpdates, paramChanges>>
  /\ UNCHANGED emergVars
  /\ \E force \in BOOLEAN : CheckOrderStatus(force, FALSE)

\* saveCompletedTransaction(details, apiResponse, isSimulated) as a closure that
\* saw the saved flag as `saved`: the inserts it leaves in flight
SaveCompletedTransaction(details, saved, ins) ==
  IF details = NoDetails \/ saved THEN ins ELSE ins (+) One(Ins(details.orderId))

\* a failed request that leaves statusCheckError as it was
StatusCheckErrorAfter_Dropped(result, prev) == prev

\* statusCheckError after the response: set by the error return, the non-zero
\* code branch and the catch block, and by nothing else
StatusCheckErrorAfter(result, prev) == IF result = "error" THEN RequestError ELSE prev

\* the continuation of checkOrderStatus after the await: the response of request r.
\* result is "error" (transport error, exception, non-zero code) or a raw status.
DeliverResponse ==
  /\ UNCHANGED <<hookUpdates, paramChanges>>
  /\ UNCHANGED emergVars
  /\ \E r \in BagToSet(statusRequests), result \in RawStatus \cup {"error"} :
    LET reqs1 == statusRequests (-) One(r)
        e == [kind |-> "response", result |-> result, id |-> r.id]
        ins1 == IF result = "DONE"
                  THEN SaveCompletedTransaction(r.orig, r.saved, inserts)
                  ELSE inserts
        err1 == IF mounted THEN StatusCheckErrorAfter(result, statusCheckError) ELSE statusCheckError
    IN IF ~mounted \/ result # "DONE"
         THEN Quiet(reqs1, ins1, redirects, store, pollTimer, err1, e)
         ELSE Commit(orderId, token, originalOrderDetails, FALSE, simulateSuccess,
                     IF r.orig # NoDetails THEN MarkDone(r.orig) ELSE orderDetails,
                     r.orig # NoDetails, transactionSaved, FALSE,
                     reqs1, ins1, redirects, store, statusCheckError, e)

\* the continuation of saveCompletedTransaction after the await: the store's answer
CompleteInsert ==
  /\ UNCHANGED <<hookUpdates, paramChanges>>
  /\ UNCHANGED emergVars
  /\ \E i \in BagToSet(inserts), ok \in BOOLEAN :
    LET ins1 == inserts (-) One(i)
        e == [kind |-> "insert", ok |-> ok, id |-> i.orderId]
        store2 == [store EXCEPT ![i.orderId] = @ + 1]
        redirects2 == redirects (+) One(REDIRECT_DELAY)
    IN IF ~ok
         THEN Quiet(statusRequests, ins1, redirects, store, pollTimer, statusCheckError, e)
         ELSE /\ store[i.orderId] < MaxRecords
              /\ BagCardinality(redirects2) <= MaxRedirects
              /\ IF mounted
                   THEN Commit(orderId, token, originalOrderDetails, FALSE, simulateSuccess,
                               orderDetails, FALSE, TRUE, FALSE,
                               statusRequests, ins1, redirects2, store2, statusCheckError, e)
                   ELSE Quiet(statusRequests, ins1, redirects2, store2, pollTimer, statusCheckError, e)

\* the setTimeout callback of a successful save: navigate to the completion page,
\* which unmounts the order view (the cleanup of the polling effect clears its timer)
RedirectFire ==
  /\ BagIn(0, redirects)
  /\ redirects' = redirects (-) One(0)
  /\ navigated' = Min(navigated + 1, MaxRedirects)
  /\ mounted' = FALSE
  /\ pollTimer' = NULL
  \* the state of an unmounted component is gone
  /\ orderId' = NoOrder
  /\ token' = FALSE
  /\ originalOrderDetails' = NoDetails
  /\ orderDetails' = NoDetails
  /\ simulateSuccess' = FALSE
  /\ pollingInterval' = DEFAULT
  /\ pollAge' = MaxInterval
  /\ manualStatusCheckAttempted' = FALSE
  /\ transactionSaved' = FALSE
  /\ statusCheckError' = NoError
  /\ cbSaved' = FALSE
  /\ ev' = Other
  /\ UNCHANGED <<statusRequests, inserts, store, hookUpdates, paramChanges>>
  /\ UNCHANGED <<recVars, provVars, emergVars>>

\* a pending call or callback d ms later: the lastPollTimestamp its closure of
\* checkOrderStatus holds is d ms older
Later(c, d) == [c EXCEPT !.closure.age = Min(@ + d, MaxInterval)]

\* time passes until the next armed timer is due (with no timer armed, until
\* lastPollTimestamp is older than every interval); a due timer fires first
Tick ==
  LET due == (IF pollTimer = NULL THEN {} ELSE {pollTimer}) \cup BagToSet(redirects)
               \cup {f.left : f \in followUps}
      d == Smallest(due \cup {MaxInterval})
  IN /\ 0 \notin due
     /\ due # {} \/ (mounted /\ pollAge < MaxInterval)
     /\ pollTimer' = IF pollTimer = NULL THEN NULL ELSE pollTimer - d
     /\ redirects' = [t \in {u - d : u \in BagToSet(redirects)} |-> redirects[t + d]]
     /\ pollAge' = IF mounted THEN Min(pollAge + d, MaxInterval) ELSE pollAge
     /\ ev' = Other
     /\ UNCHANGED <<mounted, orderId, token, originalOrderDetails, orderDetails,
                    simulateSuccess, pollingInterval, manualStatusCheckAttempted,
                    transactionSaved, statusCheckError, cbSaved, statusRequests, inserts, store, navigated,
                    hookUpdates, paramChanges>>
     /\ emergencyCalls' = {Later(c, d) : c \in emergencyCalls}
     /\ followUps' = {[Later(f, d) EXCEPT !.left = @ - d] : f \in followUps}
     /\ emergencyEv' = Other
     /\ UNCHANGED <<ffOrderId, checkOrderStatusGiven, setEmergencyActionTakenGiven,
                    emergencyActionTaken, emergencyActions>>
     /\ UNCHANGED <<recVars, provVars>>

(* ------------------------------------------------------ the environment *)
\* the orderId search parameter changes to another order while the view stays
\* mounted; the order hook keeps its last value until it returns the new details
SetSearchParams ==
  /\ mounted
  /\ paramChanges < MaxParamChanges
  /\ paramChanges' = paramChanges + 1
  /\ UNCHANGED hookUpdates
  /\ UNCHANGED emergVars
  /\ \E o \in Orders \ {orderId} :
       /\ Commit(o, token, originalOrderDetails, FALSE,
                 simulateSuccess, orderDetails, FALSE, transactionSaved, FALSE,
                 statusRequests, inserts, redirects, store,
                 statusCheckError, Other)

\* useBridgeOrder returns new details for the tracked order
HookUpdate ==
  /\ mounted
  /\ orderId # NoOrder
  /\ hookUpdates < MaxHookUpdates
  /\ hookUpdates' = hookUpdates + 1
  /\ UNCHANGED paramChanges
  /\ UNCHANGED emergVars
  /\ \E raw \in RawStatus :
       Commit(orderId, token, Details(orderId, raw), TRUE, simulateSuccess,
              orderDetails, FALSE, transactionSaved, FALSE,
              statusRequests, inserts, redirects, store,
              statusCheckError, Other)

\* the "Simulate Completed" switch, rendered once details are displayed
ToggleSimulate ==
  /\ mounted
  /\ orderDetails # NoDetails
  /\ UNCHANGED <<hookUpdates, paramChanges>>
  /\ UNCHANGED emergVars
  /\ Commit(orderId, token, originalOrderDetails, FALSE, ~simulateSuccess,
            orderDetails, FALSE, transactionSaved, FALSE,
            statusRequests, inserts, redirects, store,
            statusCheckError, Other)

(* ---------------------------------------------------------------- system *)
NoQuote == [expiresAt |-> NULL]
\* no quote is held, so no inputs it was calculated for
NoInputs == <<>>
NoSession == [id |-> NoOrder]

\* no provider state is part of the order view or the renderer
NoProvider ==
  /\ fromCurrency = ""
  /\ toCurrency = ""
  /\ amount = ""
  /\ destinationAddress = ""
  /\ lastPriceData = NoQuote
  /\ quotedFor = NoInputs
  /\ amountError = ""
  /\ estimatedReceiveAmount = ""
  /\ isCalculating = FALSE
  /\ timeRemaining = NULL
  /\ timeRemainingTimerRef = FALSE
  /\ countdownTimers = 0
  /\ sinceQuote = NULL
  /\ sessionSlot = NoSession
  /\ statusCheckTimerRef = NoOrder
  /\ statusTimers = {}
  /\ priceCalls = EmptyBag
  /\ orderCalls = EmptyBag
  /\ statusChecks = EmptyBag
  /\ lastCreated = NoSession
  /\ inputChanges = 0
  /\ creates = 0
  /\ providerEv = Other

\* no emergency action is part of the order view, the reconciler or the provider
NoEmergency ==
  /\ ffOrderId = ""
  /\ checkOrderStatusGiven = FALSE
  /\ setEmergencyActionTakenGiven = FALSE
  /\ emergencyActionTaken = FALSE
  /\ emergencyCalls = {}
  /\ followUps = {}
  /\ emergencyActions = 0
  /\ emergencyEv = Other

\* no status renderer is part of the order view
NoRenderer ==
  /\ initialOrderDetails = NoDetails
  /\ initialLoading = FALSE
  /\ errorProp = FALSE
  /\ checkDbAvailable = FALSE
  /\ rendererOrderDetails = NoDetails
  /\ checkingDbForExpiredOrder = FALSE
  /\ loading = FALSE
  /\ stateStabilized = FALSE
  /\ hasCheckedExpiredOrderRef = NoOrder
  /\ stabTimer = NULL
  /\ boundTimer = NULL
  /\ dbQueries = {}
  /\ dbTimers = {}
  /\ propsUpdates = 0
  /\ queriesMade = [x \in Orders |-> 0]
  /\ check = [id |-> NoOrder]
  /\ checkAge = NULL
  /\ rendererEv = Other

\* the view after its first render and effects
Init ==
  \E o \in {"X", NoOrder}, t \in BOOLEAN :
    \E d \in {NoDetails} \cup (IF o = NoOrder THEN {} ELSE {Details(o, s) : s \in RawStatus}) :
      LET forced == o # NoOrder /\ t
          pi == IF d = NoDetails THEN DEFAULT ELSE PollingIntervalFor(d.rawStatus)
      IN /\ mounted = TRUE
         /\ orderId = o
         /\ token = t
         /\ originalOrderDetails = d
         /\ orderDetails = d
         /\ simulateSuccess = FALSE
         /\ pollingInterval = pi
         /\ pollAge = IF forced THEN 0 ELSE MaxInterval
         /\ manualStatusCheckAttempted = forced
         /\ transactionSaved = FALSE
         /\ statusCheckError = NoError
         /\ cbSaved = FALSE
         /\ pollTimer = IF forced /\ pi # NULL THEN pi ELSE NULL
         /\ statusRequests = IF forced THEN One(Req(o, d, FALSE)) ELSE EmptyBag
         /\ inserts = EmptyBag
         /\ redirects = EmptyBag
         /\ store = [x \in Orders |-> 0]
         /\ navigated = 0
         /\ hookUpdates = 0
         /\ paramChanges = 0
         /\ ev = Other
         /\ NoRenderer
         /\ NoProvider
         /\ NoEmergency

Next ==
  \/ PollTick
  \/ ExternalCheck
  \/ DeliverResponse
  \/ CompleteInsert
  \/ RedirectFire
  \/ Tick
  \/ SetSearchParams
  \/ HookUpdate
  \/ ToggleSimulate

Spec == Init /\ [][Next]_vars

(***************************************************************************)
(* The expired-order reconciler (components/bridge/BridgeStatusRenderer):   *)
(* the renderer keeps its own copy of the order details, and when the       *)
(* details it is given are those of an expired order it asks the store for  *)
(* a completed record of that order.  One state is the renderer's state     *)
(* after a render and its effects; time advances from one timer deadline to *)
(* the next, and a store query takes one of the latencies below.            *)
(***************************************************************************)
MaxPropsUpdates == 2      \* new props after the mount
MaxQueries == 2           \* store queries awaiting their answer
MaxQueriesMade == 2       \* store queries counted per order id
MaxAge == 4000            \* an age of the last reconciliation beyond it is never told apart

DB_CHECK_TIMEOUT == 3000
FLICKER_DELAY == 300

\* the times the store takes to answer: at once, so late that the delayed
\* continuation runs after the timeout, and after the timeout
Latencies == {100, 2800, 3200}

\* the statuses of the details the renderer is given
PropStatus == {"NEW", "DONE", "EXPIRED"}
PropDetails == {NoDetails} \cup {Details(o, raw) : o \in Orders, raw \in PropStatus}

\* {...initialOrderDetails, currentStatus: "completed", rawApiResponse: the record's}
UpdatedDetails(d) == [d EXCEPT !.currentStatus = "completed", !.rawStatus = "DONE"]

NoCheck == [id |-> NoOrder]

\* the effects of the render that shows the props d, l, err to a renderer whose
\* state is od, chk, ld, stab and whose ref is ref.  runStab, runDb: the
\* dependencies of the stabilisation effect, of the DB check effect, changed.
RenderEffects(d, l, err, fn, od, chk, ld, stab, ref, runStab, runDb) ==
  LET \* effect [initialOrderDetails, initialLoading]
      stable == runStab /\ stab /\ d.currentStatus # od.currentStatus
      arm == runStab /\ ~stab /\ d # NoDetails
      \* effect [initialOrderDetails, checkDbForCompletedTransaction]
      isExpiredOrder == d.currentStatus = "expired" \/ d.rawStatus = "EXPIRED"
      shouldCheckDB == isExpiredOrder /\ ~chk /\ ref # d.orderId /\ fn
      start == runDb /\ shouldCheckDB /\ d # NoDetails
  IN [od |-> IF stable THEN d ELSE od,
      loading |-> IF runStab /\ ~arm THEN l ELSE ld,
      stabilized |-> IF start THEN FALSE ELSE stab,
      checking |-> chk \/ start,
      ref |-> IF start THEN d.orderId ELSE ref,
      arm |-> arm,
      start |-> start,
      \* the render reached the declaration of handleOrderDetailsUpdate
      ready |-> ~(ld \/ chk) /\ ~err /\ od # NoDetails]

\* a store query in flight: the closure of startDbCheck and the time left
Query(d, ready, latency) == [details |-> d, ready |-> ready, latency |-> latency, left |-> latency]
\* the setTimeout of an answered query
DbTimer(q, found) == [details |-> q.details, ready |-> q.ready, latency |-> q.latency, found |-> found, left |-> FLICKER_DELAY]

ViewAbsent ==
  /\ mounted = FALSE
  /\ orderId = NoOrder
  /\ token = FALSE
  /\ originalOrderDetails = NoDetails
  /\ orderDetails = NoDetails
  /\ simulateSuccess = FALSE
  /\ pollingInterval = DEFAULT
  /\ pollAge = MaxInterval
  /\ manualStatusCheckAttempted = FALSE
  /\ transactionSaved = FALSE
  /\ statusCheckError = NoError
  /\ cbSaved = FALSE
  /\ pollTimer = NULL
  /\ statusRequests = EmptyBag
  /\ inserts = EmptyBag
  /\ redirects = EmptyBag
  /\ store = [x \in Orders |-> 0]
  /\ navigated = 0
  /\ hookUpdates = 0
  /\ paramChanges = 0
  /\ ev = Other

\* the renderer after its first render and effects
RendererInit ==
  /\ ViewAbsent
  /\ NoProvider
  /\ NoEmergency
  /\ \E d \in PropDetails, l \in BOOLEAN, err \in BOOLEAN, fn \in BOOLEAN, lat \in Latencies :
       LET fx == RenderEffects(d, l, err, fn, d, FALSE, l, FALSE, NoOrder, TRUE, TRUE)
       IN /\ initialOrderDetails = d
          /\ initialLoading = l
          /\ errorProp = err
          /\ checkDbAvailable = fn
          /\ rendererOrderDetails = fx.od
          /\ checkingDbForExpiredOrder = fx.checking
          /\ loading = fx.loading
          /\ stateStabilized = fx.stabilized
          /\ hasCheckedExpiredOrderRef = fx.ref
          /\ stabTimer = IF fx.arm THEN FLICKER_DELAY ELSE NULL
          /\ boundTimer = IF fx.checking THEN DB_CHECK_TIMEOUT ELSE NULL
          /\ dbQueries = IF fx.start THEN {Query(d, fx.ready, lat)} ELSE {}
          /\ dbTimers = {}
          /\ propsUpdates = 0
          /\ queriesMade = [x \in Orders |-> IF fx.start /\ x = d.orderId THEN 1 ELSE 0]
          /\ check = IF fx.start THEN [id |-> d.orderId, latency |-> lat, ready |-> fx.ready, answer |-> "pending", disturbed |-> FALSE] ELSE NoCheck
          /\ checkAge = IF fx.start THEN 0 ELSE NULL
          /\ rendererEv = IF fx.start THEN [kind |-> "start", id |-> d.orderId] ELSE Other
          \* the latency matters only to a query
          /\ fx.start \/ lat = 100

\* the DB check timeout effect arming no timer when the flag turns true
BoundAfter_NotArmed(chk2) == IF chk2 THEN boundTimer ELSE NULL

\* the DB check timeout effect [checkingDbForExpiredOrder]: the timer after a
\* commit that leaves the flag as chk2
BoundAfter(chk2) ==
  IF chk2 = checkingDbForExpiredOrder THEN boundTimer
  ELSE IF chk2 THEN DB_CHECK_TIMEOUT ELSE NULL

\* setCheckingDbForExpiredOrder(false); setLoading(false); setStateStabilized(true)
ClearFlags ==
  /\ checkingDbForExpiredOrder' = FALSE
  /\ loading' = FALSE
  /\ stateStabilized' = TRUE
  /\ boundTimer' = BoundAfter(FALSE)

\* the parent renders the renderer with new props
PropsUpdate ==
  /\ propsUpdates < MaxPropsUpdates
  /\ propsUpdates' = propsUpdates + 1
  /\ \E d \in PropDetails, l \in BOOLEAN, err \in BOOLEAN, fresh \in BOOLEAN, lat \in Latencies :
       LET changed == d # initialOrderDetails \/ (fresh /\ d # NoDetails)
           fx == RenderEffects(d, l, err, checkDbAvailable, rendererOrderDetails,
                               checkingDbForExpiredOrder, loading, stateStabilized,
                               hasCheckedExpiredOrderRef, changed \/ l # initialLoading, changed)
           id == d.orderId
       IN /\ changed \/ l # initialLoading \/ err # errorProp
          /\ fx.start \/ lat = 100
          /\ fx.start => Cardinality(dbQueries) < MaxQueries /\ queriesMade[id] < MaxQueriesMade
          /\ initialOrderDetails' = d
          /\ initialLoading' = l
          /\ errorProp' = err
          /\ rendererOrderDetails' = fx.od
          /\ checkingDbForExpiredOrder' = fx.checking
          /\ loading' = fx.loading
          /\ stateStabilized' = fx.stabilized
          /\ hasCheckedExpiredOrderRef' = fx.ref
          /\ stabTimer' = IF fx.arm THEN FLICKER_DELAY
                          ELSE IF changed \/ l # initialLoading THEN NULL ELSE stabTimer
          /\ boundTimer' = BoundAfter(fx.checking)
          /\ dbQueries' = IF fx.start THEN dbQueries \cup {Query(d, fx.ready, lat)} ELSE dbQueries
          /\ queriesMade' = IF fx.start THEN [queriesMade EXCEPT ![id] = @ + 1] ELSE queriesMade
          /\ check' = IF fx.start THEN [id |-> id, latency |-> lat, ready |-> fx.ready, answer |-> "pending", disturbed |-> FALSE]
                      ELSE IF check = NoCheck THEN check ELSE [check EXCEPT !.disturbed = TRUE]
          /\ checkAge' = IF fx.start THEN 0 ELSE checkAge
          /\ rendererEv' = IF fx.start THEN [kind |-> "start", id |-> id] ELSE Other
  /\ UNCHANGED <<checkDbAvailable, dbTimers>>
  /\ UNCHANGED <<viewVars, provVars, emergVars>>

\* the stabilisation timer: setStateStabilized(true); setOrderDetails(initialOrderDetails)
StabTimerFire ==
  /\ stabTimer = 0
  /\ stabTimer' = NULL
  /\ stateStabilized' = TRUE
  /\ rendererOrderDetails' = initialOrderDetails
  /\ rendererEv' = Other
  /\ UNCHANGED <<initialOrderDetails, initialLoading, errorProp, checkDbAvailable,
                 checkingDbForExpiredOrder, loading, hasCheckedExpiredOrderRef, boundTimer,
                 dbQueries, dbTimers, propsUpdates, queriesMade, check, checkAge>>
  /\ UNCHANGED <<viewVars, provVars, emergVars>>

\* the DB check timeout
BoundTimerFire ==
  /\ boundTimer = 0
  /\ ClearFlags
  /\ rendererEv' = [kind |-> "bound"]
  /\ UNCHANGED <<initialOrderDetails, initialLoading, errorProp, checkDbAvailable,
                 rendererOrderDetails, hasCheckedExpiredOrderRef, stabTimer,
                 dbQueries, dbTimers, propsUpdates, queriesMade, check, checkAge>>
  /\ UNCHANGED <<viewVars, provVars, emergVars>>

\* the continuation of startDbCheck after the await: the store answers the query
\* q with the completed record of the order ("found"), with none, or the call throws
DbAnswer ==
  /\ \E q \in dbQueries, outcome \in {"found", "none", "threw"} :
       /\ q.left = 0
       /\ dbQueries' = dbQueries \ {q}
       /\ check' = IF check.id = q.details.orderId THEN [check EXCEPT !.answer = outcome] ELSE check
       /\ IF outcome = "threw"
            THEN /\ ClearFlags
                 /\ dbTimers' = dbTimers
            ELSE /\ dbTimers' = dbTimers \cup {DbTimer(q, outcome = "found")}
                 /\ UNCHANGED <<checkingDbForExpiredOrder, loading, stateStabilized, boundTimer>>
       /\ rendererEv' = [kind |-> "answer", id |-> q.details.orderId]
  /\ UNCHANGED <<initialOrderDetails, initialLoading, errorProp, checkDbAvailable,
                 rendererOrderDetails, hasCheckedExpiredOrderRef, stabTimer,
                 propsUpdates, queriesMade, checkAge>>
  /\ UNCHANGED <<viewVars, provVars, emergVars>>

\* handleOrderDetailsUpdate as the closure of a render sees it: the function when
\* the render reached its declaration, else the call throws and the callback ends
HandleOrderDetailsUpdate(ready, updatedDetails, od) == IF ready THEN updatedDetails ELSE od

\* the setTimeout callback of an answered query
DbTimerFire ==
  /\ \E t \in dbTimers :
       /\ t.left = 0
       /\ dbTimers' = dbTimers \ {t}
       /\ rendererOrderDetails' =
            IF t.found THEN HandleOrderDetailsUpdate(t.ready, UpdatedDetails(t.details), rendererOrderDetails)
            ELSE rendererOrderDetails
       /\ IF t.found /\ ~t.ready
            THEN UNCHANGED <<checkingDbForExpiredOrder, loading, stateStabilized, boundTimer>>
            ELSE ClearFlags
       /\ rendererEv' = [kind |-> "applied", id |-> t.details.orderId, found |-> t.found, latency |-> t.latency]
  /\ UNCHANGED <<initialOrderDetails, initialLoading, errorProp, checkDbAvailable,
                 hasCheckedExpiredOrderRef, stabTimer, dbQueries,
                 propsUpdates, queriesMade, check, checkAge>>
  /\ UNCHANGED <<viewVars, provVars, emergVars>>

\* time passes until the next deadline; what is due happens first
RendererTick ==
  LET due == (IF stabTimer = NULL THEN {} ELSE {stabTimer})
               \cup (IF boundTimer = NULL THEN {} ELSE {boundTimer})
               \cup {q.left : q \in dbQueries} \cup {t.left : t \in dbTimers}
      d == Smallest(due)
  IN /\ due # {}
     /\ 0 \notin due
     /\ stabTimer' = IF stabTimer = NULL THEN NULL ELSE stabTimer - d
     /\ boundTimer' = IF boundTimer = NULL THEN NULL ELSE boundTimer - d
     /\ dbQueries' = {[q EXCEPT !.left = @ - d] : q \in dbQueries}
     /\ dbTimers' = {[t EXCEPT !.left = @ - d] : t \in dbTimers}
     /\ checkAge' = IF checkAge = NULL THEN NULL ELSE Min(checkAge + d, MaxAge)
     /\ rendererEv' = Other
     /\ UNCHANGED <<initialOrderDetails, initialLoading, errorProp, checkDbAvailable,
                    rendererOrderDetails, checkingDbForExpiredOrder, loading, stateStabilized,
                    hasCheckedExpiredOrderRef, propsUpdates, queriesMade, check>>
     /\ UNCHANGED <<viewVars, provVars, emergVars>>

RendererNext ==
  \/ PropsUpdate
  \/ StabTimerFire
  \/ BoundTimerFire
  \/ DbAnswer
  \/ DbTimerFire
  \/ RendererTick

RendererSpec == RendererInit /\ [][RendererNext]_vars

(* ------------------------------------------------------- the bridge provider *)
MaxInputChanges == 3  \* values the form hands to the provider's setters
MaxCreates == 2       \* calls of createBridgeTransaction
MaxPriceCalls == 2    \* calculatePrice calls awaiting their answer
MaxOrderCalls == 2    \* createOrder calls awaiting their answer
MaxStatusChecks == 1  \* checkOrderStatus calls of the provider's interval in flight
MaxQuoteAge == 121000 \* ages of a quote beyond it are never told apart

QUOTE_VALIDITY_MS == 120000
TIMER_UPDATE_INTERVAL_MS == 1000

\* the ages at which the provider is looked at: every one a tick of the countdown
SampleAges == {TIMER_UPDATE_INTERVAL_MS, QUOTE_VALIDITY_MS - TIMER_UPDATE_INTERVAL_MS, QUOTE_VALIDITY_MS, MaxQuoteAge}

NaN == -2
FromCurrencies == {"", "USDT"}
ToCurrencies == {"", "BTC"}
Amounts == {"", ".", "0", "5", "11", "500"}
Addresses == {"", "bc1q"}

\* parseFloat of the amounts the form can hold
ParseFloat(a) ==
  CASE a = "" -> NaN
    [] a = "." -> NaN
    [] a = "0" -> 0
    [] a = "5" -> 5
    [] a = "11" -> 11
    [] a = "500" -> 500
    [] a = "10" -> 10
    [] a = "100" -> 100
    [] a = "-5" -> 0 - 5
    [] a = " " -> NaN

\* comparisons of numbers: each is false when an operand is NaN
Less(x, y) == x # NaN /\ y # NaN /\ x < y
LessEq(x, y) == x # NaN /\ y # NaN /\ x <= y

AmountMissing_EmptyOnly(a) == a = ""
\* !amount || parseFloat(amount) <= 0
AmountMissing(a) == a = "" \/ LessEq(ParseFloat(a), 0)

NoAmountError == ""
MinimumError == "Minimum amount is"
MaximumError == "Maximum amount is"

SourceRequired == "Source currency is required"
DestinationRequired == "Destination currency is required"
AmountRequired == "Valid amount is required"
AddressRequired == "Destination address is required"
InvalidAmount == "Invalid amount"
RateExpired == "Exchange rate has expired. Please try again."
CreateFailed == "Failed to create order"
Valid == "valid"

\* the quote service's answer to a request made at nowMs: its expiry lies the
\* validity of a quote after its creation, in seconds
CalculatePrice(nowMs) == [min |-> 10, max |-> 100, rate |-> "0.0002", toAmount |-> "0.0022", expiresAt |-> (nowMs + 120000) \div 1000]
\* a quote whose bounds are lo and hi
QuoteWith(lo, hi) == [CalculatePrice(0) EXCEPT !.min = lo, !.max = hi]
\* the bounds the quote service answers with
QuoteBounds == {<<10, 100>>, <<5, 11>>}
\* the quote service hook publishes every quote it returns as lastPriceCheck
Publishes(outcome) == outcome = "quote"

ValidateAmount_Strict(a, lpd) ==
  IF lpd = NoQuote \/ a = "" THEN [ok |-> TRUE, error |-> NoAmountError]
  ELSE IF ParseFloat(a) = NaN THEN [ok |-> TRUE, error |-> NoAmountError]
  ELSE IF LessEq(ParseFloat(a), lpd.min) THEN [ok |-> FALSE, error |-> MinimumError]
  ELSE IF LessEq(lpd.max, ParseFloat(a)) THEN [ok |-> FALSE, error |-> MaximumError]
  ELSE [ok |-> TRUE, error |-> NoAmountError]
\* validateAmount: the value returned and the amountError it sets
ValidateAmount(a, lpd) ==
  IF lpd = NoQuote \/ a = "" THEN [ok |-> TRUE, error |-> NoAmountError]
  ELSE IF ParseFloat(a) = NaN THEN [ok |-> TRUE, error |-> NoAmountError]
  ELSE IF Less(ParseFloat(a), lpd.min) THEN [ok |-> FALSE, error |-> MinimumError]
  ELSE IF Less(lpd.max, ParseFloat(a)) THEN [ok |-> FALSE, error |-> MaximumError]
  ELSE [ok |-> TRUE, error |-> NoAmountError]

\* validateBridgeTransaction: the message of the error thrown, Valid when none is;
\* amountError is the state of the render the call belongs to
ValidateBridgeTransaction(from, to, a, address, lpd, error) ==
  IF from = "" THEN SourceRequired
  ELSE IF to = "" THEN DestinationRequired
  ELSE IF AmountMissing(a) THEN AmountRequired
  ELSE IF address = "" THEN AddressRequired
  ELSE IF ~ValidateAmount(a, lpd).ok THEN (IF error # NoAmountError THEN error ELSE InvalidAmount)
  ELSE Valid

\* validateAmount is reached by validateBridgeTransaction
ReachesValidateAmount(from, to, a, address) == from # "" /\ to # "" /\ ~AmountMissing(a) /\ address # ""

\* lastPriceData.expiresAt < new Date().getTime() / 1000
Expired_Lenient(lpd, nowMs) == lpd.expiresAt * 1000 + TIMER_UPDATE_INTERVAL_MS < nowMs
Expired(lpd, nowMs) == lpd.expiresAt * 1000 < nowMs

\* the countdown's updateTimer: the time shown for timeLeft ms, null at 0
TimeRemainingAt(timeLeft) ==
  IF timeLeft <= 0 THEN NULL
  ELSE (timeLeft \div 1000) * 1000 + ((timeLeft % 1000) \div 10) * 10

\* the countdown effect, run when estimatedReceiveAmount or isCalculating changed
Countdown(estimate, calculating, changed, remaining) ==
  IF ~changed THEN remaining
  ELSE IF estimate # "" /\ ~calculating THEN TimeRemainingAt(QUOTE_VALIDITY_MS)
  ELSE NULL

\* the interval of the countdown effect: what the ref holds and how many intervals
\* are armed, after the cleanup of the run before and this run
CountdownTimer(estimate, calculating, changed, ref, timers) ==
  LET cleared == IF ref THEN timers - 1 ELSE timers
  IN IF ~changed THEN [ref |-> ref, timers |-> timers]
     ELSE IF estimate # "" /\ ~calculating THEN [ref |-> TRUE, timers |-> cleared + 1]
     ELSE [ref |-> FALSE, timers |-> cleared]

\* updateTimer, called by the interval when timeLeft ms are left
UpdateTimer(timeLeft, ref, timers) ==
  IF timeLeft <= 0
  THEN [timeRemaining |-> NULL, ref |-> FALSE, timers |-> IF ref THEN timers - 1 ELSE timers]
  ELSE [timeRemaining |-> TimeRemainingAt(timeLeft), ref |-> ref, timers |-> timers]

\* the object createBridgeTransaction's catch returns for new Error(message)
Failure(message) == [orderId |-> "", code |-> 500, msg |-> message, data |-> NoOrder, debugInfo |-> "error"]
Pending == [code |-> NULL, msg |-> ""]

\* what the order service can answer
Created(id) == [code |-> 0, msg |-> "", data |-> id, debugInfo |-> "response"]
Declined == [code |-> 301, msg |-> "Invalid address", data |-> NoOrder, debugInfo |-> "response"]
DeclinedSilently == [code |-> 301, msg |-> "", data |-> NoOrder, debugInfo |-> "response"]
Empty == [code |-> 0, msg |-> "", data |-> NoOrder, debugInfo |-> "response"]
OrderAnswers == {Created(o) : o \in Orders} \cup {Declined, DeclinedSilently, Empty}
\* what createOrder can throw: an object with a code, an Error with a message
ApiError == [code |-> 429, msg |-> "Too many requests", data |-> NoOrder, debugInfo |-> "thrown"]
NetworkError == "Network error"
Thrown == {"object", "Error"}
\* createBridgeTransaction's value for what createOrder threw
Caught(thrown) == IF thrown = "object" THEN ApiError ELSE Failure(NetworkError)

PriceCall(from, to, a, lpd) == [fromCurrency |-> from, toCurrency |-> to, amount |-> a, lastPriceData |-> lpd]
\* the arguments of a calculatePrice call
Inputs(from, to, a) == <<from, to, a>>
\* the inputs of the quote held after calculatePrice answered the call c,
\* whatever the form holds by then
QuotedForAfter(outcome, c) == IF outcome = "quote" THEN Inputs(c.fromCurrency, c.toCurrency, c.amount) ELSE NoInputs
OrderCall(from, to, a, address, estimate, rate) == [fromCurrency |-> from, toCurrency |-> to, amount |-> a, destinationAddress |-> address, receiveAmount |-> estimate, rate |-> rate]

\* transactionData, as createBridgeTransaction writes it
TransactionData(c, result) == [id |-> result.data, fromCurrency |-> c.fromCurrency, toCurrency |-> c.toCurrency, amount |-> c.amount, destinationAddress |-> c.destinationAddress, receiveAmount |-> c.receiveAmount]
OldSession == [id |-> "old", fromCurrency |-> "USDT", toCurrency |-> "BTC", amount |-> "11", destinationAddress |-> "bc1q", receiveAmount |-> "0.0022"]

\* createBridgeTransaction's value for createOrder's answer
ReturnedFor_Generic(result) == IF result.code = 0 /\ result.data # NoOrder THEN result ELSE [orderId |-> "", code |-> 500, msg |-> CreateFailed, data |-> NoOrder, debugInfo |-> result.debugInfo]
ReturnedFor(result) ==
  IF result.code = 0 /\ result.data # NoOrder THEN result
  ELSE IF result.code # 0 /\ result.msg # "" THEN result
  ELSE [orderId |-> "", code |-> 500, msg |-> CreateFailed, data |-> NoOrder, debugInfo |-> result.debugInfo]

\* the slot after createOrder's answer
SlotAfter_Kept(c, result, slot) == slot
SlotAfter(c, result, slot) == IF result.code = 0 /\ result.data # NoOrder THEN TransactionData(c, result) ELSE slot

\* startStatusChecking arming its interval beside the one the ref holds
StatusTimersAfter_NotCleared(result, timer, timers) ==
  IF result.code = 0 /\ result.data # NoOrder THEN timers \cup {result.data} ELSE timers

\* startStatusChecking after createOrder's answer: the intervals armed, the one
\* the ref held cleared first
StatusTimersAfter(result, timer, timers) ==
  IF result.code = 0 /\ result.data # NoOrder
    THEN (timers \ {timer}) \cup {result.data}
    ELSE timers

\* startStatusChecking after createOrder's answer: the order the interval checks
TimerAfter(result, timer) == IF result.code = 0 /\ result.data # NoOrder THEN result.data ELSE timer

ProviderInit ==
  /\ ViewAbsent
  /\ NoRenderer
  /\ NoEmergency
  /\ fromCurrency = ""
  /\ toCurrency = ""
  /\ amount = "11"
  /\ destinationAddress = ""
  /\ lastPriceData = NoQuote
  /\ quotedFor = NoInputs
  /\ amountError = NoAmountError
  /\ estimatedReceiveAmount = ""
  /\ isCalculating = FALSE
  /\ timeRemaining = NULL
  /\ timeRemainingTimerRef = FALSE
  /\ countdownTimers = 0
  /\ sinceQuote = NULL
  /\ sessionSlot \in {NoSession, OldSession}
  /\ statusCheckTimerRef = NoOrder
  /\ statusTimers = {}
  /\ priceCalls = EmptyBag
  /\ orderCalls = EmptyBag
  /\ statusChecks = EmptyBag
  /\ lastCreated = NoSession
  /\ inputChanges = 0
  /\ creates = 0
  /\ providerEv = Other

ProviderFrame == UNCHANGED <<viewVars, recVars, emergVars>>

\* loadCurrencies and refreshCurrencies, when the list holds USDT and BTC
LoadCurrencies ==
  /\ inputChanges < MaxInputChanges
  /\ fromCurrency # "USDT" \/ toCurrency # "BTC"
  /\ fromCurrency' = "USDT"
  /\ toCurrency' = "BTC"
  /\ inputChanges' = inputChanges + 1
  /\ providerEv' = Other
  /\ UNCHANGED <<amount, destinationAddress, lastPriceData, quotedFor, amountError, estimatedReceiveAmount, isCalculating, timeRemaining, timeRemainingTimerRef, countdownTimers, sinceQuote, sessionSlot, statusCheckTimerRef, statusTimers, priceCalls, orderCalls, statusChecks, lastCreated, creates>>
  /\ ProviderFrame

SetFromCurrency ==
  /\ inputChanges < MaxInputChanges
  /\ \E c \in FromCurrencies \ {fromCurrency} : fromCurrency' = c
  /\ inputChanges' = inputChanges + 1
  /\ providerEv' = Other
  /\ UNCHANGED <<toCurrency, amount, destinationAddress, lastPriceData, quotedFor, amountError, estimatedReceiveAmount, isCalculating, timeRemaining, timeRemainingTimerRef, countdownTimers, sinceQuote, sessionSlot, statusCheckTimerRef, statusTimers, priceCalls, orderCalls, statusChecks, lastCreated, creates>>
  /\ ProviderFrame

SetToCurrency ==
  /\ inputChanges < MaxInputChanges
  /\ \E c \in ToCurrencies \ {toCurrency} : toCurrency' = c
  /\ inputChanges' = inputChanges + 1
  /\ providerEv' = Other
  /\ UNCHANGED <<fromCurrency, amount, destinationAddress, lastPriceData, quotedFor, amountError, estimatedReceiveAmount, isCalculating, timeRemaining, timeRemainingTimerRef, countdownTimers, sinceQuote, sessionSlot, statusCheckTimerRef, statusTimers, priceCalls, orderCalls, statusChecks, lastCreated, creates>>
  /\ ProviderFrame

\* setAmount, and the effect that validates the new amount
SetAmount ==
  /\ inputChanges < MaxInputChanges
  /\ \E a \in Amounts \ {amount} :
       /\ amount' = a
       /\ amountError' = ValidateAmount(a, lastPriceData).error
  /\ inputChanges' = inputChanges + 1
  /\ providerEv' = Other
  /\ UNCHANGED <<fromCurrency, toCurrency, destinationAddress, lastPriceData, quotedFor, estimatedReceiveAmount, isCalculating, timeRemaining, timeRemainingTimerRef, countdownTimers, sinceQuote, sessionSlot, statusCheckTimerRef, statusTimers, priceCalls, orderCalls, statusChecks, lastCreated, creates>>
  /\ ProviderFrame

SetDestinationAddress ==
  /\ inputChanges < MaxInputChanges
  /\ \E a \in Addresses \ {destinationAddress} : destinationAddress' = a
  /\ inputChanges' = inputChanges + 1
  /\ providerEv' = Other
  /\ UNCHANGED <<fromCurrency, toCurrency, amount, lastPriceData, quotedFor, amountError, estimatedReceiveAmount, isCalculating, timeRemaining, timeRemainingTimerRef, countdownTimers, sinceQuote, sessionSlot, statusCheckTimerRef, statusTimers, priceCalls, orderCalls, statusChecks, lastCreated, creates>>
  /\ ProviderFrame

StartCalculation_Skipped == UNCHANGED <<estimatedReceiveAmount, lastPriceData, quotedFor, sinceQuote, timeRemaining, timeRemainingTimerRef, countdownTimers, isCalculating, priceCalls>>
\* calculateReceiveAmount up to its await: the state it leaves
StartCalculation ==
  IF fromCurrency = "" \/ toCurrency = "" \/ AmountMissing(amount)
  THEN /\ estimatedReceiveAmount' = ""
       /\ lastPriceData' = NoQuote
       /\ quotedFor' = NoInputs
       /\ sinceQuote' = NULL
       /\ timeRemaining' = Countdown("", isCalculating, estimatedReceiveAmount # "", timeRemaining)
       /\ timeRemainingTimerRef' = CountdownTimer("", isCalculating, estimatedReceiveAmount # "", timeRemainingTimerRef, countdownTimers).ref
       /\ countdownTimers' = CountdownTimer("", isCalculating, estimatedReceiveAmount # "", timeRemainingTimerRef, countdownTimers).timers
       /\ UNCHANGED <<isCalculating, priceCalls>>
  ELSE /\ BagCardinality(priceCalls) < MaxPriceCalls
       /\ isCalculating' = TRUE
       /\ priceCalls' = priceCalls (+) One(PriceCall(fromCurrency, toCurrency, amount, lastPriceData))
       /\ timeRemaining' = Countdown(estimatedReceiveAmount, TRUE, ~isCalculating, timeRemaining)
       /\ timeRemainingTimerRef' = CountdownTimer(estimatedReceiveAmount, TRUE, ~isCalculating, timeRemainingTimerRef, countdownTimers).ref
       /\ countdownTimers' = CountdownTimer(estimatedReceiveAmount, TRUE, ~isCalculating, timeRemainingTimerRef, countdownTimers).timers
       /\ UNCHANGED <<estimatedReceiveAmount, lastPriceData, quotedFor, sinceQuote>>

\* calculateReceiveAmount, called by the form
CalculateReceiveAmount ==
  /\ StartCalculation
  /\ providerEv' = [kind |-> "calculate"]
  /\ UNCHANGED <<fromCurrency, toCurrency, amount, destinationAddress, amountError, sessionSlot, statusCheckTimerRef, statusTimers, orderCalls, statusChecks, lastCreated, inputChanges, creates>>
  /\ ProviderFrame

\* isCalculating after calculatePrice's answer: the finally block
IsCalculatingAfter_Stuck(outcome) == outcome = "threw"
IsCalculatingAfter(outcome) == FALSE

\* the effect on lastPriceCheck, run after the render that holds a and lpd:
\* error is the amountError that render was given
LastPriceCheckEffect_Absent(published, a, lpd, error) == error
LastPriceCheckEffect(published, a, lpd, error) == IF published THEN ValidateAmount(a, lpd).error ELSE error

\* calculatePrice answers: a quote, nothing, or an error thrown
PriceAnswer ==
  /\ \E c \in BagToSet(priceCalls), outcome \in {"quote", "none", "threw"}, b \in QuoteBounds :
       LET estimate == IF outcome = "quote" THEN CalculatePrice(0).toAmount ELSE "0"
           quote == IF outcome = "quote" THEN QuoteWith(b[1], b[2]) ELSE NoQuote
           closure == IF outcome = "quote" THEN ValidateAmount(c.amount, c.lastPriceData).error ELSE amountError
       IN /\ priceCalls' = priceCalls (-) One(c)
          /\ estimatedReceiveAmount' = estimate
          /\ lastPriceData' = quote
          /\ quotedFor' = QuotedForAfter(outcome, c)
          /\ sinceQuote' = IF outcome = "quote" THEN 0 ELSE NULL
          /\ amountError' = LastPriceCheckEffect(Publishes(outcome), amount, quote, closure)
          /\ isCalculating' = IsCalculatingAfter(outcome)
          /\ timeRemaining' = Countdown(estimate, isCalculating', isCalculating' # isCalculating \/ estimate # estimatedReceiveAmount, timeRemaining)
          /\ timeRemainingTimerRef' = CountdownTimer(estimate, isCalculating', isCalculating' # isCalculating \/ estimate # estimatedReceiveAmount, timeRemainingTimerRef, countdownTimers).ref
          /\ countdownTimers' = CountdownTimer(estimate, isCalculating', isCalculating' # isCalculating \/ estimate # estimatedReceiveAmount, timeRemainingTimerRef, countdownTimers).timers
          /\ providerEv' = [kind |-> "price", outcome |-> outcome]
  /\ UNCHANGED <<fromCurrency, toCurrency, amount, destinationAddress, sessionSlot, statusCheckTimerRef, statusTimers, orderCalls, statusChecks, lastCreated, inputChanges, creates>>
  /\ ProviderFrame

\* createBridgeTransaction up to its first await
CreateBridgeTransaction ==
  /\ creates < MaxCreates
  /\ creates' = creates + 1
  /\ LET message == ValidateBridgeTransaction(fromCurrency, toCurrency, amount, destinationAddress, lastPriceData, amountError)
         error2 == IF ReachesValidateAmount(fromCurrency, toCurrency, amount, destinationAddress) THEN ValidateAmount(amount, lastPriceData).error ELSE amountError
     IN /\ amountError' = error2
        /\ IF message # Valid
           THEN /\ providerEv' = [kind |-> "create", returned |-> Failure(message)]
                /\ UNCHANGED <<lastPriceData, quotedFor, estimatedReceiveAmount, isCalculating, timeRemaining, timeRemainingTimerRef, countdownTimers, sinceQuote, priceCalls, orderCalls>>
           ELSE IF lastPriceData = NoQuote \/ Expired(lastPriceData, sinceQuote)
           THEN /\ StartCalculation
                /\ providerEv' = [kind |-> "create", returned |-> Failure(RateExpired)]
                /\ UNCHANGED orderCalls
           ELSE /\ BagCardinality(orderCalls) < MaxOrderCalls
                /\ orderCalls' = orderCalls (+) One(OrderCall(fromCurrency, toCurrency, amount, destinationAddress, estimatedReceiveAmount, lastPriceData.rate))
                /\ providerEv' = [kind |-> "create", returned |-> Pending]
                /\ UNCHANGED <<lastPriceData, quotedFor, estimatedReceiveAmount, isCalculating, timeRemaining, timeRemainingTimerRef, countdownTimers, sinceQuote, priceCalls>>
  /\ UNCHANGED <<fromCurrency, toCurrency, amount, destinationAddress, sessionSlot, statusCheckTimerRef, statusTimers, statusChecks, lastCreated, inputChanges>>
  /\ ProviderFrame

\* createOrder answers: the rest of createBridgeTransaction
OrderAnswer ==
  /\ \E c \in BagToSet(orderCalls), result \in OrderAnswers :
       /\ orderCalls' = orderCalls (-) One(c)
       /\ sessionSlot' = SlotAfter(c, result, sessionSlot)
       /\ statusCheckTimerRef' = TimerAfter(result, statusCheckTimerRef)
       /\ statusTimers' = StatusTimersAfter(result, statusCheckTimerRef, statusTimers)
       /\ lastCreated' = IF result.code = 0 /\ result.data # NoOrder THEN TransactionData(c, result) ELSE lastCreated
       /\ providerEv' = [kind |-> "order", result |-> result, returned |-> ReturnedFor(result)]
  /\ UNCHANGED <<fromCurrency, toCurrency, amount, destinationAddress, lastPriceData, quotedFor, amountError, estimatedReceiveAmount, isCalculating, timeRemaining, timeRemainingTimerRef, countdownTimers, sinceQuote, priceCalls, statusChecks, inputChanges, creates>>
  /\ ProviderFrame

\* createOrder throws: createBridgeTransaction's catch
OrderThrows ==
  /\ \E c \in BagToSet(orderCalls), thrown \in Thrown :
       /\ orderCalls' = orderCalls (-) One(c)
       /\ providerEv' = [kind |-> "threw", returned |-> Caught(thrown)]
  /\ UNCHANGED <<fromCurrency, toCurrency, amount, destinationAddress, lastPriceData, quotedFor, amountError, estimatedReceiveAmount, isCalculating, timeRemaining, timeRemainingTimerRef, countdownTimers, sinceQuote, sessionSlot, statusCheckTimerRef, statusTimers, priceCalls, statusChecks, lastCreated, inputChanges, creates>>
  /\ ProviderFrame

\* the status interval fires: checkOrderStatus(orderId) is called
StatusCheckFire ==
  /\ BagCardinality(statusChecks) < MaxStatusChecks
  /\ \E o \in statusTimers : statusChecks' = statusChecks (+) One(o)
  /\ providerEv' = Other
  /\ UNCHANGED <<fromCurrency, toCurrency, amount, destinationAddress, lastPriceData, quotedFor, amountError, estimatedReceiveAmount, isCalculating, timeRemaining, timeRemainingTimerRef, countdownTimers, sinceQuote, sessionSlot, statusCheckTimerRef, statusTimers, priceCalls, orderCalls, lastCreated, inputChanges, creates>>
  /\ ProviderFrame

\* checkOrderStatus answers: a terminal status clears the interval the ref holds
StatusCheckAnswer ==
  /\ \E o \in BagToSet(statusChecks), terminal \in BOOLEAN :
       /\ statusChecks' = statusChecks (-) One(o)
       /\ statusCheckTimerRef' = IF terminal THEN NoOrder ELSE statusCheckTimerRef
       /\ statusTimers' = IF terminal THEN statusTimers \ {statusCheckTimerRef} ELSE statusTimers
       /\ providerEv' = [kind |-> "status", id |-> o, terminal |-> terminal]
  /\ UNCHANGED <<fromCurrency, toCurrency, amount, destinationAddress, lastPriceData, quotedFor, amountError, estimatedReceiveAmount, isCalculating, timeRemaining, timeRemainingTimerRef, countdownTimers, sinceQuote, sessionSlot, priceCalls, orderCalls, lastCreated, inputChanges, creates>>
  /\ ProviderFrame

\* time passes up to a later tick of the countdown
ProviderTick ==
  /\ sinceQuote # NULL \/ timeRemaining # NULL
  /\ LET clock == IF sinceQuote # NULL THEN sinceQuote ELSE QUOTE_VALIDITY_MS - timeRemaining
     IN \E age \in SampleAges :
          /\ age > clock
          /\ sinceQuote' = IF sinceQuote = NULL THEN NULL ELSE age
          /\ LET tick == IF countdownTimers = 0
                         THEN [timeRemaining |-> timeRemaining, ref |-> timeRemainingTimerRef, timers |-> countdownTimers]
                         ELSE UpdateTimer(timeRemaining - (age - clock), timeRemainingTimerRef, countdownTimers)
             IN /\ timeRemaining' = tick.timeRemaining
                /\ timeRemainingTimerRef' = tick.ref
                /\ countdownTimers' = tick.timers
  /\ providerEv' = Other
  /\ UNCHANGED <<fromCurrency, toCurrency, amount, destinationAddress, lastPriceData, quotedFor, amountError, estimatedReceiveAmount, isCalculating, sessionSlot, statusCheckTimerRef, statusTimers, priceCalls, orderCalls, statusChecks, lastCreated, inputChanges, creates>>
  /\ ProviderFrame

ProviderNext ==
  \/ LoadCurrencies
  \/ SetFromCurrency
  \/ SetToCurrency
  \/ SetAmount
  \/ SetDestinationAddress
  \/ CalculateReceiveAmount
  \/ PriceAnswer
  \/ CreateBridgeTransaction
  \/ OrderAnswer
  \/ OrderThrows
  \/ StatusCheckFire
  \/ StatusCheckAnswer
  \/ ProviderTick

ProviderSpec == ProviderInit /\ [][ProviderNext]_vars

(* ------------------------------------------- validateAmount on its own *)
\* amounts validateAmount is given: empty, not a number, below, at, within and above bounds
ValidatedAmounts == {"", ".", " ", "-5", "0", "5", "10", "11", "100", "500"}
ValidatedQuotes == {NoQuote, QuoteWith(10, 100), QuoteWith(5, 500), QuoteWith(11, 11), QuoteWith(0, 5)}

ValidateInit ==
  /\ ViewAbsent
  /\ NoRenderer
  /\ NoEmergency
  /\ fromCurrency = "USDT"
  /\ toCurrency = "BTC"
  /\ amount \in ValidatedAmounts
  /\ destinationAddress = ""
  /\ lastPriceData \in ValidatedQuotes
  /\ quotedFor = NoInputs
  /\ amountError \in {NoAmountError, MinimumError, MaximumError}
  /\ estimatedReceiveAmount = ""
  /\ isCalculating = FALSE
  /\ timeRemaining = NULL
  /\ timeRemainingTimerRef = FALSE
  /\ countdownTimers = 0
  /\ sinceQuote = NULL
  /\ sessionSlot = NoSession
  /\ statusCheckTimerRef = NoOrder
  /\ statusTimers = {}
  /\ priceCalls = EmptyBag
  /\ orderCalls = EmptyBag
  /\ statusChecks = EmptyBag
  /\ lastCreated = NoSession
  /\ inputChanges = 0
  /\ creates = 0
  /\ providerEv = Other

\* validateAmount() of the render that holds amount and lastPriceData
ValidateAmountCall ==
  /\ providerEv = Other
  /\ amountError' = ValidateAmount(amount, lastPriceData).error
  /\ providerEv' = [kind |-> "validate", ok |-> ValidateAmount(amount, lastPriceData).ok]
  /\ UNCHANGED <<fromCurrency, toCurrency, amount, destinationAddress, lastPriceData, quotedFor, estimatedReceiveAmount, isCalculating, timeRemaining, timeRemainingTimerRef, countdownTimers, sinceQuote, sessionSlot, statusCheckTimerRef, statusTimers, priceCalls, orderCalls, statusChecks, lastCreated, inputChanges, creates>>
  /\ ProviderFrame

ValidateNext == ValidateAmountCall

ValidateSpec == ValidateInit /\ [][ValidateNext]_vars

(* --------------------------------------------- the emergency action handler *)
Choices == {"EXCHANGE", "REFUND"}
NoAddress == ""                 \* no refund address: undefined or the empty string
RefundAddresses == {"0xR"}
Absent == "absent"              \* a field the request body does not have
FF_ORDER == "FF-X"
\* the statuses of the order shown when the view opens
EmergencyStatuses == {"EMERGENCY", "PENDING"}
FOLLOW_UP_DELAY == 1000

\* the outcomes of supabase.functions.invoke("bridge-emergency"): data with code 0,
\* data with another code, no data at all, a transport error, an exception
EmergencyOutcomes == {"ok", "code", "nothing", "error", "threw"}

\* the checkOrderStatus the renderer holds: the callback of the view's current
\* render, with the orderId, token, pollingInterval, lastPollTimestamp (as an
\* age) and originalOrderDetails that render saw
CheckOrderStatusProp ==
  [id |-> orderId, tok |-> token, pi |-> pollingInterval, age |-> pollAge,
   orig |-> originalOrderDetails, saved |-> cbSaved]

\* the request body with the address copied whatever the choice is
RequestBody_AnyChoice(choice, refundAddress) ==
  [id |-> ffOrderId, token |-> token, choice |-> choice,
   address |-> IF refundAddress # NoAddress THEN refundAddress ELSE Absent]

\* requestBody of handleEmergencyAction
RequestBody(choice, refundAddress) ==
  [id |-> ffOrderId, token |-> token, choice |-> choice,
   address |-> IF choice = "REFUND" /\ refundAddress # NoAddress
                 THEN refundAddress ELSE Absent]

\* handleEmergencyAction(choice, refundAddress) up to the await
HandleEmergencyAction(choice, refundAddress) ==
  /\ mounted
  /\ rendererOrderDetails # NoDetails
  /\ emergencyActions < MaxEmergencyActions
  /\ emergencyActions' = emergencyActions + 1
  /\ IF ffOrderId = "" \/ ~token
       THEN /\ emergencyEv' = [kind |-> "action", sent |-> FALSE,
                               toast |-> "Missing order information for emergency action"]
            /\ UNCHANGED emergencyCalls
       ELSE /\ emergencyEv' = [kind |-> "action", sent |-> TRUE, toast |-> ""]
            /\ emergencyCalls' = emergencyCalls \cup
                 {[n |-> emergencyActions, choice |-> choice, refundAddress |-> refundAddress,
                   body |-> RequestBody(choice, refundAddress),
                   closure |-> CheckOrderStatusProp]}
  /\ UNCHANGED <<ffOrderId, checkOrderStatusGiven, setEmergencyActionTakenGiven,
                 emergencyActionTaken, followUps>>
  /\ UNCHANGED <<viewVars, recVars, provVars>>

\* handleEmergencyExchange
HandleEmergencyExchange == HandleEmergencyAction("EXCHANGE", NoAddress)

\* handleEmergencyRefund(refundAddress)
HandleEmergencyRefund ==
  \E refundAddress \in RefundAddresses \cup {NoAddress} :
    HandleEmergencyAction("REFUND", refundAddress)

\* handleEmergencyAction called with any choice and any address
HandleEmergencyActionCall ==
  \E choice \in Choices, refundAddress \in RefundAddresses \cup {NoAddress} :
    HandleEmergencyAction(choice, refundAddress)

\* the flag set by every answer
EmergencyActionTakenAfter_Always(outcome, taken) == setEmergencyActionTakenGiven \/ taken

\* the flag after an answer: setEmergencyActionTaken(true) in the code-0 branch
EmergencyActionTakenAfter(outcome, taken) ==
  IF outcome = "ok" /\ setEmergencyActionTakenGiven THEN TRUE ELSE taken

\* the timeouts armed after the answer to call c: one in the code-0 branch
FollowUpsAfter(outcome, c, armed) ==
  IF outcome = "ok" /\ checkOrderStatusGiven
    THEN armed \cup {[n |-> c.n, left |-> FOLLOW_UP_DELAY, closure |-> c.closure]}
    ELSE armed

\* the toast of the answer
ToastAfter(outcome, c) ==
  CASE outcome = "ok" -> ""
    [] outcome = "error" -> "Failed to process"
    [] outcome \in {"code", "nothing"} -> "API Error"
    [] outcome = "threw" -> "Failed to process request. Please try again later."

\* handleEmergencyAction after the await
EmergencyAnswer ==
  \E c \in emergencyCalls, outcome \in EmergencyOutcomes :
    /\ emergencyCalls' = emergencyCalls \ {c}
    /\ emergencyActionTaken' = EmergencyActionTakenAfter(outcome, emergencyActionTaken)
    /\ followUps' = FollowUpsAfter(outcome, c, followUps)
    /\ emergencyEv' = [kind |-> "answer", n |-> c.n, outcome |-> outcome,
                       toast |-> ToastAfter(outcome, c)]
    /\ UNCHANGED <<ffOrderId, checkOrderStatusGiven, setEmergencyActionTakenGiven,
                   emergencyActions>>
    /\ UNCHANGED <<viewVars, recVars, provVars>>

\* the force argument of the delayed call: checkOrderStatus() passes none, the
\* parameter takes its default
FollowUpForce == FALSE

\* checkOrderStatus(force) run through the closure c of an earlier render
CheckOrderStatusClosure(c, force) ==
  LET e == [kind |-> "check", force |-> force, timer |-> FALSE]
      reqs1 == statusRequests (+) One(Req(c.id, c.orig, c.saved))
      missing == IF mounted THEN MissingError ELSE statusCheckError
  IN IF c.id = NoOrder \/ ~c.tok
       THEN Quiet(statusRequests, inserts, redirects, store, pollTimer, missing, e)
     ELSE IF c.pi = NULL /\ ~force
       THEN Quiet(statusRequests, inserts, redirects, store, pollTimer, statusCheckError, e)
     ELSE IF ~force /\ c.age < c.pi
       THEN Quiet(statusRequests, inserts, redirects, store, pollTimer, statusCheckError, e)
     ELSE IF mounted
       THEN Commit(orderId, token, originalOrderDetails, FALSE, simulateSuccess,
                   orderDetails, FALSE, transactionSaved, TRUE,
                   reqs1, inserts, redirects, store, statusCheckError, e)
     ELSE /\ BagCardinality(reqs1) <= MaxInFlight
          /\ Quiet(reqs1, inserts, redirects, store, pollTimer, statusCheckError, e)

\* the setTimeout callback of a successful emergency action
FollowUpFire ==
  \E f \in followUps :
    /\ f.left = 0
    /\ followUps' = followUps \ {f}
    /\ emergencyEv' = [kind |-> "followUp", n |-> f.n, closure |-> f.closure]
    /\ UNCHANGED <<ffOrderId, checkOrderStatusGiven, setEmergencyActionTakenGiven,
                   emergencyActionTaken, emergencyCalls, emergencyActions>>
    /\ UNCHANGED <<hookUpdates, paramChanges>>
    /\ CheckOrderStatusClosure(f.closure, FollowUpForce)

\* the order view showing order X through the renderer, after the first render
\* and effects
EmergencyInit ==
  \E t \in BOOLEAN, s \in EmergencyStatuses :
    LET d == Details("X", s)
        pi == PollingIntervalFor(s)
    IN /\ mounted = TRUE
       /\ orderId = "X"
       /\ token = t
       /\ originalOrderDetails = d
       /\ orderDetails = d
       /\ simulateSuccess = FALSE
       /\ pollingInterval = pi
       /\ pollAge = IF t THEN 0 ELSE MaxInterval
       /\ manualStatusCheckAttempted = t
       /\ transactionSaved = FALSE
       /\ statusCheckError = NoError
       /\ cbSaved = FALSE
       /\ pollTimer = IF t /\ pi # NULL THEN pi ELSE NULL
       /\ statusRequests = IF t THEN One(Req("X", d, FALSE)) ELSE EmptyBag
       /\ inserts = EmptyBag
       /\ redirects = EmptyBag
       /\ store = [x \in Orders |-> 0]
       /\ navigated = 0
       /\ hookUpdates = 0
       /\ paramChanges = 0
       /\ ev = Other
       /\ initialOrderDetails = d
       /\ initialLoading = FALSE
       /\ errorProp = FALSE
       /\ checkDbAvailable = FALSE
       /\ rendererOrderDetails = d
       /\ checkingDbForExpiredOrder = FALSE
       /\ loading = FALSE
       /\ stateStabilized = FALSE
       /\ hasCheckedExpiredOrderRef = NoOrder
       /\ stabTimer = NULL
       /\ boundTimer = NULL
       /\ dbQueries = {}
       /\ dbTimers = {}
       /\ propsUpdates = 0
       /\ queriesMade = [x \in Orders |-> 0]
       /\ check = [id |-> NoOrder]
       /\ checkAge = NULL
       /\ rendererEv = Other
       /\ NoProvider
       /\ ffOrderId \in {"", FF_ORDER}
       /\ checkOrderStatusGiven \in BOOLEAN
       /\ setEmergencyActionTakenGiven \in BOOLEAN
       /\ emergencyActionTaken = FALSE
       /\ emergencyCalls = {}
       /\ followUps = {}
       /\ emergencyActions = 0
       /\ emergencyEv = Other

EmergencyNext ==
  \/ HandleEmergencyExchange
  \/ HandleEmergencyRefund
  \/ HandleEmergencyActionCall
  \/ EmergencyAnswer
  \/ FollowUpFire
  \/ PollTick
  \/ DeliverResponse
  \/ CompleteInsert
  \/ RedirectFire
  \/ Tick

EmergencySpec == EmergencyInit /\ [][EmergencyNext]_vars

(***************************************************************************)
(* Properties                                                               *)
(***************************************************************************)
\* the step is the continuation of the status request r
Answered(r) ==
  /\ ev'.kind = "response"
  /\ r \in BagToSet(statusRequests)
  /\ statusRequests' = statusRequests (-) One(r)

\* the step is a call of checkOrderStatus(force) on a view holding orderId and token
Checked(force) ==
  /\ ev'.kind = "check"
  /\ ev'.force = force
  /\ mounted /\ orderId # NoOrder /\ token

InFlight(o) == IF Ins(o) \in BagToSet(inserts) THEN inserts[Ins(o)] ELSE 0

\* C1: while the order view is open the store never holds more than one
\* completed-transaction row for an order id.
C1_AtMostOneRecord == mounted => \A o \in Orders : store[o] <= 1

\* C2: a response to a request made for another order than the tracked one
\* changes neither the displayed details nor the interval and starts no save.
C2_StaleResponseDiscarded ==
  [][\A r \in BagToSet(statusRequests) :
       (Answered(r) /\ mounted /\ r.id # orderId)
         => /\ orderDetails' = orderDetails
            /\ pollingInterval' = pollingInterval
            /\ inserts' = inserts]_vars

\* C3: after a successful response reporting status S for the tracked order,
\* the displayed raw status is S and the interval is the table entry of S.
C3_SuccessUpdatesSnapshot ==
  [][\A r \in BagToSet(statusRequests) :
       (/\ Answered(r) /\ mounted /\ r.id = orderId
        /\ ev'.result \in RawStatus
        /\ orderDetails # NoDetails /\ r.orig # NoDetails)
         => /\ orderDetails'.rawStatus = ev'.result
            /\ pollingInterval' = POLLING_INTERVALS[ev'.result]]_vars

\* C4: the table is total over the raw statuses with the stated entries, and
\* the interval in force is the table entry of the displayed raw status.
C4_PolicyApplied ==
  /\ DOMAIN POLLING_INTERVALS = RawStatus
  /\ POLLING_INTERVALS["NEW"] = 10000 /\ POLLING_INTERVALS["PENDING"] = 10000
  /\ POLLING_INTERVALS["EXCHANGE"] = 20000 /\ POLLING_INTERVALS["WITHDRAW"] = 20000
  /\ POLLING_INTERVALS["DONE"] = 30000
  /\ POLLING_INTERVALS["EXPIRED"] = NULL /\ POLLING_INTERVALS["EMERGENCY"] = NULL
  /\ (mounted /\ orderDetails # NoDetails)
       => pollingInterval = POLLING_INTERVALS[orderDetails.rawStatus]

C6_ForcedCheck ==
  [][Checked(TRUE)
       => /\ BagCardinality(statusRequests') = BagCardinality(statusRequests) + 1
          /\ pollAge' = 0]_vars

\* a forced check has just issued a request for an order whose displayed status
\* is one the table stops polling for
C6_Witness ==
  /\ ev.kind = "check" /\ ev.force
  /\ mounted /\ orderId # NoOrder /\ token
  /\ orderDetails.rawStatus \in {"EXPIRED", "EMERGENCY"}
  /\ statusRequests # EmptyBag
  /\ pollAge = 0

\* C7: while the displayed raw status is EXPIRED or EMERGENCY no poll timer is
\* armed and a non-forced check issues no request and changes nothing.
C7_NullIntervalIdle ==
  /\ [](mounted /\ orderDetails.rawStatus \in {"EXPIRED", "EMERGENCY"} => pollTimer = NULL)
  /\ [][(Checked(FALSE) /\ orderDetails.rawStatus \in {"EXPIRED", "EMERGENCY"})
          => /\ statusRequests' = statusRequests
             /\ pollAge' = pollAge
             /\ orderDetails' = orderDetails]_vars

\* C8: once a successful response for the tracked order has reported EXPIRED or
\* EMERGENCY, no poll timer is armed.
C8_TerminalCancelsTicks ==
  [][\A r \in BagToSet(statusRequests) :
       (/\ Answered(r) /\ mounted /\ r.id = orderId
        /\ ev'.result \in {"EXPIRED", "EMERGENCY"})
         => pollTimer' = NULL]_vars

\* C9: a response reporting DONE for the tracked order, when the store holds no
\* row for it and no insert for it is under way, makes the recorder write: an
\* insert for that order is in flight afterwards.
C9_DoneIsRecorded ==
  [][\A r \in BagToSet(statusRequests) :
       (/\ Answered(r) /\ mounted /\ r.id = orderId
        /\ ev'.result = "DONE"
        /\ store[r.id] = 0 /\ InFlight(r.id) = 0)
         => InFlight(r.id)' >= 1]_vars

\* C10: the redirect to the completion page runs at most once per order view.
C10_CompletionFiresOnce == navigated <= 1

\* the step is the store's answer to an insert for order o
InsertAnswered(ok) == ev'.kind = "insert" /\ ev'.ok = ok

\* C11: a failed insert leaves the saved flag, the store and the redirects as
\* they were, and a DONE response for the tracked order that comes right after
\* the failure starts an insert again.
C11_FailedSaveRetried ==
  /\ [][InsertAnswered(FALSE)
          => /\ transactionSaved' = transactionSaved
             /\ store' = store
             /\ redirects' = redirects]_vars
  /\ [][\A r \in BagToSet(statusRequests) :
          (/\ ev.kind = "insert" /\ ~ev.ok /\ ev.id = r.id
           /\ Answered(r) /\ mounted /\ r.id = orderId
           /\ ev'.result = "DONE"
           /\ ~transactionSaved)
            => InFlight(r.id)' >= InFlight(r.id) + 1]_vars

\* the first half of C11 alone
C11_FailureChangesNothing ==
  [][InsertAnswered(FALSE)
       => /\ transactionSaved' = transactionSaved
          /\ store' = store
          /\ redirects' = redirects]_vars

\* the step is the failure of the status request r answered on a mounted view
Failed(r) == Answered(r) /\ mounted /\ ev'.result = "error"

BoundPassed ==
  /\ check # NoCheck /\ ~check.disturbed
  /\ \A o \in Orders : queriesMade[o] = IF o = check.id THEN 1 ELSE 0
  /\ checkAge # NULL /\ checkAge >= DB_CHECK_TIMEOUT

\* C13: 3000ms after a reconciliation started, the status shown is completed
\* when the store answered in time with a completed record of the order, and
\* expired when the store answered that it has none.
C13_CompletedWithinBound ==
  BoundPassed =>
    /\ (check.answer = "found" /\ check.latency + FLICKER_DELAY < DB_CHECK_TIMEOUT)
          => /\ rendererOrderDetails.orderId = check.id
             /\ rendererOrderDetails.currentStatus = "completed"
    /\ check.answer = "none" => rendererOrderDetails.currentStatus = "expired"

\* C14: the timeout ends the check (the loading state is left), and the
\* continuation of a query that the store answered after the timeout changes
\* nothing of the details shown.
C14_LateAnswerIgnored ==
  /\ [][rendererEv'.kind = "bound" => ~checkingDbForExpiredOrder' /\ ~loading']_vars
  /\ [][(rendererEv'.kind = "applied" /\ rendererEv'.latency > DB_CHECK_TIMEOUT)
          => rendererOrderDetails' = rendererOrderDetails]_vars

\* C15: a store query is started only for the details of an expired order whose
\* id the ref does not hold, while no check is under way; and no order id is
\* queried more than once.
C15_OneQueryPerOrder ==
  /\ [][rendererEv'.kind = "start"
          => /\ initialOrderDetails'.currentStatus = "expired"
             /\ hasCheckedExpiredOrderRef # rendererEv'.id
             /\ ~checkingDbForExpiredOrder]_vars
  /\ [](\A o \in Orders : queriesMade[o] <= 1)

(* ------------------------------------------------- the provider's properties *)
\* a step of createBridgeTransaction up to its first await
CreateStep == providerEv'.kind = "create" /\ creates' = creates + 1
\* the inputs of the render pass validateBridgeTransaction
InputsValid == ValidateBridgeTransaction(fromCurrency, toCurrency, amount, destinationAddress, lastPriceData, amountError) = Valid
\* the quote is older than its validity
QuoteOutdated == lastPriceData # NoQuote /\ sinceQuote > QUOTE_VALIDITY_MS
\* the step calls neither the order service nor the store nor startStatusChecking
NothingCreated == orderCalls' = orderCalls /\ sessionSlot' = sessionSlot /\ statusCheckTimerRef' = statusCheckTimerRef /\ lastCreated' = lastCreated

\* C16: a create whose inputs are valid and whose quote is expired or absent starts
\* a calculatePrice call, returns the expired-rate error, does not call the order
\* service and writes no session.
C16_ExpiredQuoteRecalculated ==
  [][(CreateStep /\ InputsValid /\ (lastPriceData = NoQuote \/ QuoteOutdated))
       => /\ BagCardinality(priceCalls') = BagCardinality(priceCalls) + 1
          /\ isCalculating'
          /\ providerEv'.returned.code = 500
          /\ providerEv'.returned.msg = RateExpired
          /\ NothingCreated]_vars

C16_Witness ==
  /\ providerEv.kind = "create"
  /\ providerEv.returned.msg = RateExpired
  /\ isCalculating
  /\ priceCalls # EmptyBag
  /\ orderCalls = EmptyBag
  /\ sessionSlot = OldSession

AmountPositive == ParseFloat(amount) # NaN /\ ParseFloat(amount) > 0
WithinBounds == lastPriceData = NoQuote \/ (lastPriceData.min <= ParseFloat(amount) /\ ParseFloat(amount) <= lastPriceData.max)
FirstFailure ==
  IF fromCurrency = "" THEN "source"
  ELSE IF toCurrency = "" THEN "destination"
  ELSE IF ~AmountPositive THEN "amount"
  ELSE IF destinationAddress = "" THEN "address"
  ELSE IF ~WithinBounds THEN "bounds"
  ELSE IF lastPriceData = NoQuote \/ QuoteOutdated THEN "expired"
  ELSE "none"
MessagesOf(failed) ==
  CASE failed = "source" -> {SourceRequired}
    [] failed = "destination" -> {DestinationRequired}
    [] failed = "amount" -> {AmountRequired}
    [] failed = "address" -> {AddressRequired}
    [] failed = "bounds" -> {MinimumError, MaximumError, InvalidAmount}
    [] failed = "expired" -> {RateExpired}

\* C18: a create reports the first precondition its inputs fail, by that check's
\* own message, and then calls no order service, leaves the stored session as it
\* is and starts no status checking.
C18_FirstFailureReported ==
  [][(CreateStep /\ FirstFailure # "none")
       => /\ providerEv'.returned.code = 500
          /\ providerEv'.returned.msg \in MessagesOf(FirstFailure)
          /\ NothingCreated]_vars

\* createOrder's answer is a success: code 0 with data
Success(result) == result.code = 0 /\ result.data # NoOrder

\* C19: a successful answer of createOrder writes the session of its call to the
\* slot, whatever the slot held, starts status checking for the new order id and
\* is returned; the slot always holds the session of the last successful creation.
C19_SlotHoldsLastCreation ==
  /\ [](lastCreated # NoSession => sessionSlot = lastCreated)
  /\ [][(providerEv'.kind = "order" /\ Success(providerEv'.result))
          => /\ \E c \in BagToSet(orderCalls) :
                  /\ orderCalls' = orderCalls (-) One(c)
                  /\ sessionSlot' = [id |-> providerEv'.result.data, fromCurrency |-> c.fromCurrency, toCurrency |-> c.toCurrency, amount |-> c.amount, destinationAddress |-> c.destinationAddress, receiveAmount |-> c.receiveAmount]
             /\ statusCheckTimerRef' = providerEv'.result.data
             /\ providerEv'.returned = providerEv'.result]_vars

C19_Witness ==
  /\ providerEv.kind = "order"
  /\ Success(providerEv.result)
  /\ sessionSlot.id = providerEv.result.data
  /\ statusCheckTimerRef = sessionSlot.id
  /\ creates = 2
  /\ orderCalls # EmptyBag

C21_ValidateAmount ==
  providerEv.kind = "validate"
    => LET a == ParseFloat(amount)
           q == lastPriceData
       IN IF q = NoQuote \/ amount = "" \/ a = NaN
          THEN providerEv.ok /\ amountError = NoAmountError
          ELSE /\ amountError = MinimumError <=> a < q.min
               /\ amountError = MaximumError <=> a > q.max
               /\ providerEv.ok <=> (q.min <= a /\ a <= q.max)
               /\ providerEv.ok <=> amountError = NoAmountError

C21_Witness ==
  /\ providerEv.kind = "validate"
  /\ lastPriceData # NoQuote
  /\ ParseFloat(amount) = lastPriceData.max
  /\ lastPriceData.min < lastPriceData.max
  /\ providerEv.ok
  /\ amountError = NoAmountError

\* the validation of amount a against quote q
Validation(a, q) ==
  IF q = NoQuote \/ a = "" \/ ParseFloat(a) = NaN THEN NoAmountError
  ELSE IF ParseFloat(a) < q.min THEN MinimumError
  ELSE IF ParseFloat(a) > q.max THEN MaximumError
  ELSE NoAmountError
AmountChanged == amount' # amount
NewQuote == providerEv'.kind = "price" /\ providerEv'.outcome = "quote"

C23_InvalidInputsNotDispatched ==
  [][(providerEv'.kind = "calculate"
        /\ (fromCurrency = "" \/ toCurrency = "" \/ amount = "" \/ (ParseFloat(amount) # NaN /\ ParseFloat(amount) <= 0)))
       => /\ estimatedReceiveAmount' = ""
          /\ lastPriceData' = NoQuote
          /\ priceCalls' = priceCalls
          /\ isCalculating' = isCalculating]_vars

C23_Witness ==
  /\ providerEv.kind = "calculate"
  /\ fromCurrency # ""
  /\ toCurrency # ""
  /\ amount = "0"
  /\ estimatedReceiveAmount = ""
  /\ lastPriceData = NoQuote
  /\ priceCalls = EmptyBag
  /\ ~isCalculating

\* C24: a calculation that dispatches a request sets the busy flag; every answer of
\* the quote service, a quote, nothing or an error thrown, clears it; the flag is
\* never true when no request is outstanding.
C24_BusyFlagCleared ==
  /\ [](isCalculating => priceCalls # EmptyBag)
  /\ [][/\ BagCardinality(priceCalls') > BagCardinality(priceCalls) => isCalculating'
        /\ providerEv'.kind = "price" => ~isCalculating']_vars

C24_Witness ==
  /\ providerEv.kind = "price"
  /\ providerEv.outcome = "threw"
  /\ ~isCalculating
  /\ priceCalls = EmptyBag

\* C25: the answer to a calculatePrice call whose source currency, destination
\* currency or amount is no longer the one held leaves the estimate, the quote and
\* the countdown as they are.
C25_SupersededAnswerDiscarded ==
  [][(providerEv'.kind = "price"
        /\ \E c \in BagToSet(priceCalls) :
             /\ priceCalls' = priceCalls (-) One(c)
             /\ <<c.fromCurrency, c.toCurrency, c.amount>> # <<fromCurrency, toCurrency, amount>>)
       => UNCHANGED <<estimatedReceiveAmount, lastPriceData, sinceQuote, timeRemaining>>]_vars

\* what is left of the validity of the quote held
QuoteRemaining(age) == IF QUOTE_VALIDITY_MS - age > 0 THEN QUOTE_VALIDITY_MS - age ELSE 0
\* the countdown shows what is left of the quote held
CountdownInStep == lastPriceData # NoQuote /\ timeRemaining = QuoteRemaining(sinceQuote)

\* C26: a new quote restarts the countdown; at most one countdown interval is
\* armed; a remaining time that is shown is what is left of the validity of the
\* most recent quote.
C26_CountdownFollowsQuote ==
  /\ [](countdownTimers <= 1)
  /\ [](timeRemaining # NULL => CountdownInStep)
  /\ [][NewQuote => timeRemaining' = QUOTE_VALIDITY_MS /\ countdownTimers' = 1]_vars

\* a tick of the countdown interval, or of time alone when no interval is armed
TickStep == providerEv'.kind = "other" /\ (sinceQuote' # sinceQuote \/ timeRemaining' # timeRemaining)

\* C27: a tick of the countdown computes max(0, creation of the quote + 120000 -
\* now), shows it when it is positive, and at 0 shows nothing and cancels the
\* interval; with no interval armed nothing is shown and no tick changes that.
C27_TickComputesRemaining ==
  /\ [](countdownTimers = 0 => timeRemaining = NULL)
  /\ [][TickStep =>
          IF countdownTimers = 0 THEN timeRemaining' = NULL /\ countdownTimers' = 0
          ELSE /\ lastPriceData # NoQuote
               /\ QuoteRemaining(sinceQuote') >= 0
               /\ IF QuoteRemaining(sinceQuote') = 0
                  THEN timeRemaining' = NULL /\ countdownTimers' = 0 /\ ~timeRemainingTimerRef'
                  ELSE timeRemaining' = QuoteRemaining(sinceQuote') /\ countdownTimers' = 1]_vars

(* ------------------------------------------ the emergency handler's properties *)
\* the step is the continuation of the emergency request c
EmergencyAnswered(c) ==
  /\ c \in emergencyCalls
  /\ emergencyCalls' = emergencyCalls \ {c}
  /\ emergencyEv'.kind = "answer"
  /\ emergencyEv'.n = c.n

\* the step is handleEmergencyAction returning at its guard
EmergencyRefused ==
  /\ emergencyActions' = emergencyActions + 1
  /\ emergencyEv'.kind = "action"
  /\ ~emergencyEv'.sent

\* the step is the delayed callback f of a successful emergency action
FollowUpRan(f) ==
  /\ f \in followUps
  /\ f.left = 0
  /\ followUps' = followUps \ {f}
  /\ emergencyEv'.kind = "followUp"

\* C28: an emergency request carries an address exactly when the handler was
\* called with choice REFUND and a refund address, and then it carries that
\* address; a request with choice EXCHANGE carries none, whatever the handler
\* was called with.
C28_AddressOnlyForRefund ==
  \A c \in emergencyCalls :
    /\ c.body.choice = c.choice
    /\ (c.body.address # Absent) <=> (c.choice = "REFUND" /\ c.refundAddress # NoAddress)
    /\ c.body.address # Absent => c.body.address = c.refundAddress
    /\ c.body.choice = "EXCHANGE" => c.body.address = Absent

\* an exchange requested with an address, sent without it
C28_Witness ==
  \E c \in emergencyCalls :
    /\ c.choice = "EXCHANGE"
    /\ c.refundAddress \in RefundAddresses
    /\ c.body.address = Absent

\* C29: after an emergency action answered with code 0 (in a renderer given both
\* props) the manual-action-taken flag is set and exactly one status check is
\* armed FOLLOW_UP_DELAY ms later; that check is forced: when it runs for a view
\* holding an order id and a token it issues a status request, whatever the
\* debounce window and the polling interval are.
C29_FollowUpForced ==
  [][/\ \A c \in emergencyCalls :
          (/\ EmergencyAnswered(c)
           /\ emergencyEv'.outcome = "ok"
           /\ checkOrderStatusGiven /\ setEmergencyActionTakenGiven)
          => /\ emergencyActionTaken'
             /\ \E f \in followUps' \ followUps :
                  /\ f.left = FOLLOW_UP_DELAY
                  /\ followUps' = followUps \cup {f}
     /\ \A f \in followUps :
          (FollowUpRan(f) /\ f.closure.id # NoOrder /\ f.closure.tok)
          => statusRequests' =
               statusRequests (+) One(Req(f.closure.id, f.closure.orig, f.closure.saved))
    ]_vars

\* C30: an emergency action that fails (order information missing, transport
\* error, non-zero code, no data, exception) leaves the order as it was: the
\* details displayed, the manual-action-taken flag, the armed follow-up checks
\* and the status requests are unchanged, and an error is shown.
C30_FailureLeavesOrderUntouched ==
  [][(\/ EmergencyRefused
      \/ \E c \in emergencyCalls : EmergencyAnswered(c) /\ emergencyEv'.outcome # "ok")
     => /\ rendererOrderDetails' = rendererOrderDetails
        /\ orderDetails' = orderDetails
        /\ emergencyActionTaken' = emergencyActionTaken
        /\ followUps' = followUps
        /\ statusRequests' = statusRequests
        /\ emergencyEv'.toast # ""
    ]_vars

\* a failed answer in a renderer given both props: no flag, no follow-up check
C30_Witness ==
  /\ emergencyEv.kind = "answer"
  /\ emergencyEv.outcome \in {"code", "nothing", "error", "threw"}
  /\ checkOrderStatusGiven /\ setEmergencyActionTakenGiven
  /\ ~emergencyActionTaken
  /\ followUps = {}

(* ------------------------------------------------------ timers and teardown *)
\* the step is the callback of a delayed redirect
RedirectFired ==
  /\ BagIn(0, redirects)
  /\ redirects' = redirects (-) One(0)

\* the step is the callback of the polling interval
PollFired ==
  /\ pollTimer = 0
  /\ ev'.kind = "check"
  /\ ev'.timer

\* C31: the timers of the order view are scoped to it: a callback of the polling
\* interval or of a delayed completion redirect runs only while the view is
\* mounted, never after its teardown.
C31_TimersScoped ==
  [][(PollFired \/ RedirectFired) => mounted]_vars

\* the step is startStatusChecking(o) after a successful creation
StatusCheckingStarted(o) ==
  /\ providerEv'.kind = "order"
  /\ orderCalls' # orderCalls
  /\ providerEv'.result = Created(o)

\* the step is the status interval calling checkOrderStatus(o)
StatusRequested(o) == statusChecks' = statusChecks (+) One(o)

\* C32: creating a new order stops the timer of the prior one: at most one status
\* interval is armed, after startStatusChecking it is the new order's, and every
\* status request the interval issues is for the order created last.
C32_NewOrderStopsPriorTimers ==
  /\ [](Cardinality(statusTimers) <= 1)
  /\ [][\A o \in Orders : StatusCheckingStarted(o) => statusTimers' = {o}]_vars
  /\ [][\A o \in Orders : StatusRequested(o) => o = lastCreated.id]_vars

\* order Y was created while a status request for the prior order X was in
\* flight: only Y's interval is armed
C32_Witness ==
  /\ BagIn("X", statusChecks)
  /\ lastCreated.id = "Y"
  /\ statusTimers = {"Y"}

\* C33: while a reconciliation is under way (checkingDbForExpiredOrder is set)
\* the 3000ms timeout is armed and is due 3000ms after the check started, so
\* the flag is never set for longer; when the timeout fires it clears the flag
\* and the loading state, whatever the store query has done.
C33_CheckingBounded ==
  /\ [](checkingDbForExpiredOrder =>
          /\ boundTimer # NULL
          /\ checkAge # NULL
          /\ boundTimer + checkAge = DB_CHECK_TIMEOUT)
  /\ [][boundTimer = 0 /\ boundTimer' = NULL
          => ~checkingDbForExpiredOrder' /\ ~loading']_vars

\* the timeout has just ended a check whose store query is still unanswered
C33_Witness ==
  /\ rendererEv.kind = "bound"
  /\ dbQueries # {}
  /\ checkAge = DB_CHECK_TIMEOUT
  /\ ~checkingDbForExpiredOrder
  /\ ~loading

\* the view is open on an order with a token and the status displayed is DONE
DoneDisplayed ==
  /\ mounted
  /\ orderId # NoOrder /\ token
  /\ orderDetails # NoDetails
  /\ orderDetails.rawStatus = "DONE"

\* C34: polling is not cancelled by DONE: while the open view displays DONE the
\* interval in force is the reduced 30000ms, the interval timer is armed and due
\* at most 30000ms later, and each of its ticks issues a status request.
C34_PollingContinuesAfterDone ==
  /\ [](DoneDisplayed =>
          /\ pollingInterval = POLLING_INTERVALS["DONE"]
          /\ pollTimer # NULL
          /\ pollTimer <= pollingInterval)
  /\ [][(DoneDisplayed /\ PollFired)
          => /\ BagCardinality(statusRequests') = BagCardinality(statusRequests) + 1
             /\ pollTimer' = pollingInterval]_vars

\* a tick of the 30000ms interval has just issued a request for an order
\* displayed as DONE
C34_Witness ==
  /\ DoneDisplayed
  /\ ev.kind = "check" /\ ev.timer
  /\ pollAge = 0
  /\ pollTimer = POLLING_INTERVALS["DONE"]
  /\ statusRequests # EmptyBag

\* the step is the answer to a status request of order o
StatusAnswered(o) ==
  /\ providerEv'.kind = "status"
  /\ providerEv'.id = o
  /\ statusChecks' = statusChecks (-) One(o)

\* C35: the answer to a status request of a superseded order (the interval armed
\* is a newer order's) cancels no timer, terminal status or not.
C35_LateAnswerKeepsNewTimer ==
  [][\A o \in Orders :
       (StatusAnswered(o) /\ statusTimers # {} /\ o \notin statusTimers)
       => statusTimers' = statusTimers /\ statusCheckTimerRef' = statusCheckTimerRef]_vars

\* the reconciliation has just overridden the expired order o: the renderer
\* shows it as completed while the parent's live status of it is expired
Overridden(o) ==
  /\ rendererEv.kind = "applied"
  /\ rendererEv.found /\ rendererEv.id = o
  /\ initialOrderDetails.orderId = o
  /\ initialOrderDetails.currentStatus = "expired"
  /\ rendererOrderDetails.orderId = o
  /\ rendererOrderDetails.currentStatus = "completed"

\* C36: once the reconciliation has overridden expired order o to completed, new
\* props that still carry the expired status of o leave the status shown at
\* completed.
C36_OverrideKept ==
  [][\A o \in Orders :
       (/\ Overridden(o)
        /\ propsUpdates' = propsUpdates + 1
        /\ initialOrderDetails'.orderId = o
        /\ initialOrderDetails'.currentStatus = "expired")
       => rendererOrderDetails'.currentStatus = "completed"]_vars

\* C37: the busy flag is true whenever a quote request is outstanding, also
\* after the earlier of two overlapping calculations has completed.
C37_BusyWhileOutstanding ==
  priceCalls # EmptyBag => isCalculating

\* the step is the answer of a calculation that produced no quote and leaves
\* no other calculation outstanding
AnsweredWithoutQuote ==
  /\ providerEv'.kind = "price"
  /\ providerEv'.outcome \in {"none", "threw"}
  /\ priceCalls # EmptyBag
  /\ priceCalls' = EmptyBag

\* C38: after a calculation that returns no data or throws, no quote is held,
\* no countdown interval is armed and the remaining time shown is null.
C38_NoCountdownWithoutQuote ==
  [][AnsweredWithoutQuote
       => /\ lastPriceData' = NoQuote
          /\ countdownTimers' = 0
          /\ timeRemaining' = NULL]_vars

\* the open view holds an order id, a token and a non-null interval
PollingOn ==
  /\ mounted
  /\ orderId # NoOrder /\ token
  /\ pollingInterval # NULL

\* the step is a call of checkOrderStatus that went on to its request
CheckExecuted ==
  /\ ev'.kind = "check"
  /\ BagCardinality(statusRequests') = BagCardinality(statusRequests) + 1

OrderDispatched ==
  /\ CreateStep
  /\ BagCardinality(orderCalls') = BagCardinality(orderCalls) + 1

\* C40: the rate handed to createOrder is read from a quote that was
\* calculated for the currencies and the amount of the order being submitted.
C40_RateOfSameInputs ==
  [][OrderDispatched => quotedFor = Inputs(fromCurrency, toCurrency, amount)]_vars

====
